---- MODULE Spec2Model ----
(***************************************************************************)
(* Model of the polymarket-lmsr-bot signal-to-order pipeline:              *)
(*   - RiskManager        (src/src/usecases/risk_manager.rs)               *)
(*   - OrderManager       (src/src/usecases/order_manager.rs)              *)
(*   - PolymarketFeed     (src/src/adapters/feeds/polymarket_ws.rs)        *)
(*   - ArbitrageEngine    (src/src/usecases/arbitrage_engine.rs)           *)
(*   - shutdown sequence  (src/src/main.rs)                                *)
(*   - StateStore         (src/src/adapters/persistence/state.rs)          *)
(*   - KellySizer         (src/src/domain/kelly.rs)                        *)
(*   - ClobAuth nonces    (src/src/adapters/api/auth.rs)                   *)
(*   - ClobClient retries (src/src/adapters/api/client.rs)                 *)
(*   - ConfigWatcher      (src/src/config/hot_reload.rs)                   *)
(*   - feed tasks         (src/src/adapters/feeds/task_supervisor.rs,      *)
(*                         binance.rs, coinbase.rs, polymarket_ws.rs)      *)
(*   - Settlement sweep   (src/src/usecases/settlement.rs)                 *)
(*   - ClobOrderExecutor  (src/src/adapters/api/orders.rs)                 *)
(*                                                                         *)
(* Units.  Wall-clock and monotonic time are one non-decreasing clock in   *)
(* milliseconds.  Prices and probabilities are integers in 1/10000 (so     *)
(* 0.50 is 5000); money is in cents.  f64 and Decimal arithmetic is        *)
(* modelled by exact integer arithmetic at these scales.                   *)
(***************************************************************************)
EXTENDS Integers, Sequences, FiniteSets, TLC

VARIABLES
    \* clock
    now,                    \* SystemTime::now() / Instant::now(), in ms
    ticks,                  \* number of clock advances so far (bounds the clock)
    \* RiskManager fields
    daily_loss,
    consecutive_losses,
    circuit_breaker_active,
    circuit_breaker_time,
    total_exposure,
    \* history of the risk manager's calls (observation only)
    trades,                 \* pnl of every record_trade since construction / reset_daily
    last_trip,              \* clock value at the latest call that tripped the breaker
    prev_trip,              \* circuit_breaker_time as the latest trigger_circuit_breaker found it (observation only)
    \* OrderManager fields
    open_orders,            \* HashMap<OrderId, Order>: a function on the tracked ids
    order_timestamps,       \* Vec<Instant>
    last_order_time,        \* Option<Instant>
    min_interval_ms,        \* copied from the configuration by OrderManager::new
    om_call,                \* the place_order call place_maker_order is awaiting, if any
    om_outcome,             \* how the latest place_maker_order call ended
    \* the CLOB behind the execution port
    exch_open,              \* orders open on the exchange: id -> expiry time
    next_id,                \* next order id the exchange assigns
    \* history of accepted placements (observation only)
    placed_log,
    \* what the latest cancel_all since the latest placement returned, and whether
    \* a cancel_all before it, since that placement, succeeded (observation only)
    last_cancel,
    \* PolymarketFeed: the TokenState of every token
    last_mid,               \* token -> Option<f64>
    last_snapshot,          \* token -> Option<OrderBookSnapshot>
    \* history of the feed (observation only)
    emitted,                \* token -> the PriceUpdates sent on its broadcast channel
    handled,                \* number of feed messages handled / sent so far
    last_parsed,            \* token -> the book of the latest message parsed for it
    \* ArbitrageEngine
    smoothed_prob,          \* BayesianEstimator::smoothed_prob_f64
    pc,                     \* where the engine task stands
    rx,                     \* token -> updates pending in the engine's receiver
    cur,                    \* locals of the process_update call in progress
    \* shutdown coordination (main)
    shutdown_sent,          \* the shutdown broadcast has been sent
    main_pc,                \* where main stands in its shutdown sequence
    shutdown_cancels,       \* cancel_all_orders calls made since the shutdown signal
    \* StateStore and its data directory
    state_file,             \* content of state.json
    tmp_file,               \* content of state.json.tmp
    store_pc,               \* where the save call in progress stands
    saving,                 \* the snapshot the save call in progress was given
    saves,                  \* number of save calls so far
    loaded,                 \* what the latest load call returned
    \* history of the engine (observation only)
    consumed,               \* the updates recv_first_event returned, each with
                            \* what can_trade() was when it was processed
    balances,               \* answers of available_balance
    place_calls,            \* place_order calls the engine caused
    \* a call of KellySizer::optimal_size
    sizer_in,               \* its arguments
    sizer_out,              \* what it returned, once it has
    \* CLOB authentication
    nonce_counter,          \* the static NONCE_COUNTER
    auth_seeds,             \* nonce_seed of every ClobAuth created so far
    nonces,                 \* the values generate_nonce returned (observation only)
    \* ClobClient::execute_with_retry
    http_method,            \* method of the request being executed
    http_pc,                \* where the call stands
    attempt,                \* the loop variable
    sent,                   \* what each send of the request met (observation only)
    http_result,            \* what the call returned
    http_calls,             \* number of calls so far
    last_error,             \* the loop's last_error (the outcome it was made from)
    delays,                 \* backoff delays slept before the resends, in ms
    \* ConfigWatcher and config.toml
    config_file,            \* lmsr.min_edge written in config.toml
    last_hash,              \* ConfigWatcher::last_hash
    watch_config,           \* lmsr.min_edge of the value in the watch channel
    watcher_pc,             \* where the watcher task stands
    edits,                  \* number of edits of config.toml so far
    reload_log,             \* outcome of each check_and_reload so far (observation only)
    \* the feed tasks (PolymarketFeed::run, BinanceFeed::run, CoinbaseFeed::run)
    feed_pc,                \* feed -> where its task stands
    net_down,               \* feed -> its WebSocket endpoint cannot be reached
    feed_msgs,              \* feed -> messages its task has read
    connected,              \* feed -> FeedHealth::connected (FeedSupervisor)
    \* Settlement::sweep
    settle_pc,              \* where the sweep stands
    redeemable,             \* positions queued for redemption and not yet submitted
    results,                \* the SettlementResults so far
    chain_log,              \* what each chain batch_redeem call returned (observation only)
    report,                 \* the SettlementReport returned
    \* the broadcast channels of the market feed
    rx_closed,              \* token -> the channel's sender has been dropped
    \* callers of OrderManager::cancel_all
    cancel_log              \* what each cancel_all call returned and did to the map (observation only)

riskVars == <<daily_loss, consecutive_losses, circuit_breaker_active,
              circuit_breaker_time, total_exposure, trades, last_trip, prev_trip>>
clockVars == <<now, ticks>>
omVars == <<open_orders, order_timestamps, last_order_time, min_interval_ms,
            om_call, om_outcome, placed_log, last_cancel>>
exchVars == <<exch_open, next_id>>
feedVars == <<last_mid, last_snapshot, emitted, handled, last_parsed>>
engVars == <<smoothed_prob, pc, rx, cur, consumed, balances, place_calls>>
mainVars == <<shutdown_sent, main_pc, shutdown_cancels>>
fileVars == <<state_file, tmp_file>>
storeVars == <<fileVars, store_pc, saving, saves, loaded>>
sizerVars == <<sizer_in, sizer_out>>
nonceVars == <<nonce_counter, auth_seeds, nonces>>
httpVars == <<http_method, http_pc, attempt, sent, http_result, http_calls,
              last_error, delays>>
watcherVars == <<config_file, last_hash, watch_config, watcher_pc, edits, reload_log>>
\* the components the engine, its collaborators and the shutdown sequence of
\* main never touch
taskVars == <<feed_pc, net_down, feed_msgs, connected>>
settleVars == <<settle_pc, redeemable, results, chain_log, report>>
chanVars == <<rx_closed>>
callerVars == <<cancel_log>>
aloneVars == <<sizerVars, nonceVars, httpVars, watcherVars, taskVars, settleVars,
               chanVars, callerVars>>
vars == <<clockVars, riskVars, omVars, exchVars, feedVars, engVars, mainVars,
          storeVars, aloneVars>>

\* what each component leaves alone
exceptRisk == <<omVars, exchVars, feedVars, engVars, mainVars, storeVars, aloneVars>>
exceptOrders == <<riskVars, feedVars, engVars, mainVars, storeVars, aloneVars>>
exceptFeed == <<clockVars, riskVars, omVars, exchVars, engVars, mainVars, storeVars, aloneVars>>

\* the engine, its collaborators, main and the store
exceptAlone == <<clockVars, riskVars, omVars, exchVars, feedVars, engVars, mainVars,
                 storeVars>>

exceptSizer == <<exceptAlone, nonceVars, httpVars, watcherVars, taskVars, settleVars, chanVars, callerVars>>
exceptNonce == <<exceptAlone, sizerVars, httpVars, watcherVars, taskVars, settleVars, chanVars, callerVars>>
exceptHttp == <<exceptAlone, sizerVars, nonceVars, watcherVars, taskVars, settleVars, chanVars, callerVars>>
exceptWatcher == <<exceptAlone, sizerVars, nonceVars, httpVars, taskVars, settleVars, chanVars, callerVars>>
exceptTasks == <<exceptAlone, sizerVars, nonceVars, httpVars, watcherVars, settleVars, chanVars, callerVars>>
exceptSettle == <<exceptAlone, sizerVars, nonceVars, httpVars, watcherVars, taskVars, chanVars, callerVars>>
exceptChan == <<sizerVars, nonceVars, httpVars, watcherVars, taskVars, settleVars, callerVars>>
exceptCaller == <<sizerVars, nonceVars, httpVars, watcherVars, taskVars, settleVars, chanVars>>

\* Option::None of an Option<u64> / Option<Instant>
NoTime == -1

----------------------------------------------------------------------------
\* Bounds of the model

MaxTicks == 3
MaxTrades == 5
MaxOrders == 3
MaxMsgs == 4
MaxUpdates == 2
MaxTimestamp == 2

----------------------------------------------------------------------------
\* RiskConfig (values of the unit test's test_config)

max_daily_loss_pct == 2
max_position_size == 10000
max_total_exposure == 50000
min_bankroll == 5000
circuit_breaker_losses == 3
cooldown_seconds == 300

\* pnl values passed to record_trade, in cents
Pnls == {-1000, 0, 500}
\* exposures passed to update_exposure, in cents
Exposures == {0, 45000, 50000}
\* clock advances seen by the risk manager, in ms
RiskTickSteps == {1, 999, 1000, cooldown_seconds * 1000 - 1000}

----------------------------------------------------------------------------
\* Clock

Tick(steps) ==
    /\ ticks < MaxTicks
    /\ \E d \in steps : now' = now + d
    /\ ticks' = ticks + 1

----------------------------------------------------------------------------
\* RiskManager

\* mutant of CanTrade: the cooldown comparison is inclusive
CanTradeInclusive ==
    IF circuit_breaker_active /\ circuit_breaker_time # NoTime
    THEN ~(((now - circuit_breaker_time) \div 1000) <= cooldown_seconds)
    ELSE TRUE

\* mutant of CanTrade: the elapsed milliseconds are compared with the cooldown
\* in seconds
CanTradeMillis ==
    IF circuit_breaker_active /\ circuit_breaker_time # NoTime
    THEN ~((now - circuit_breaker_time) < cooldown_seconds)
    ELSE TRUE

\* RiskManager::can_trade
CanTrade ==
    IF circuit_breaker_active /\ circuit_breaker_time # NoTime
    THEN ~(((now - circuit_breaker_time) \div 1000) < cooldown_seconds)
    ELSE TRUE

\* mutant of CanOpenPosition: the limits are exclusive
CanOpenPositionExclusive(size, bankroll) ==
    IF ~CanTrade THEN FALSE
    ELSE IF bankroll <= min_bankroll THEN FALSE
    ELSE IF size >= max_position_size THEN FALSE
    ELSE IF total_exposure + size >= max_total_exposure THEN FALSE
    ELSE IF daily_loss * 100 >= bankroll * max_daily_loss_pct THEN FALSE
    ELSE TRUE

\* RiskManager::can_open_position (size, bankroll in cents)
CanOpenPosition(size, bankroll) ==
    IF ~CanTrade THEN FALSE
    ELSE IF bankroll < min_bankroll THEN FALSE
    ELSE IF size > max_position_size THEN FALSE
    ELSE IF total_exposure + size > max_total_exposure THEN FALSE
    \* daily_loss >= bankroll * max_daily_loss_fraction
    ELSE IF daily_loss * 100 >= bankroll * max_daily_loss_pct THEN FALSE
    ELSE TRUE

\* RiskManager::is_circuit_breaker_active
IsCircuitBreakerActive == circuit_breaker_active

\* number of losing trades at the end of history s
RECURSIVE TrailingLosses(_)
TrailingLosses(s) ==
    IF s = << >> THEN 0
    ELSE IF s[Len(s)] < 0 THEN 1 + TrailingLosses(SubSeq(s, 1, Len(s) - 1))
    ELSE 0

\* mutant of RecordTradeUpdate: the threshold comparison is strict
RecordTradeStrict(pnl) ==
    IF pnl < 0
    THEN /\ daily_loss' = daily_loss - pnl
         /\ consecutive_losses' = consecutive_losses + 1
         /\ IF consecutive_losses + 1 > circuit_breaker_losses
            THEN /\ circuit_breaker_active' = TRUE
                 /\ circuit_breaker_time' = now
                 /\ prev_trip' = circuit_breaker_time
            ELSE UNCHANGED <<circuit_breaker_active, circuit_breaker_time, prev_trip>>
    ELSE /\ consecutive_losses' = 0
         /\ UNCHANGED <<daily_loss, circuit_breaker_active, circuit_breaker_time,
                        prev_trip>>

\* mutant of RecordTradeUpdate: a loss after the cooldown has elapsed finds
\* the breaker re-armed and the counter back at zero
RecordTradeRearmed(pnl) ==
    LET expired == circuit_breaker_active /\ CanTrade
        losses == IF expired THEN 0 ELSE consecutive_losses
    IN  IF pnl < 0
        THEN /\ daily_loss' = daily_loss - pnl
             /\ consecutive_losses' = losses + 1
             /\ IF losses + 1 >= circuit_breaker_losses
                THEN /\ circuit_breaker_active' = TRUE
                     /\ circuit_breaker_time' = now
                     /\ prev_trip' = circuit_breaker_time
                ELSE /\ circuit_breaker_active' = (circuit_breaker_active /\ ~expired)
                     /\ UNCHANGED <<circuit_breaker_time, prev_trip>>
        ELSE /\ consecutive_losses' = 0
             /\ UNCHANGED <<daily_loss, circuit_breaker_active, circuit_breaker_time,
                            prev_trip>>

\* RiskManager::record_trade with trigger_circuit_breaker inlined
RecordTradeUpdate(pnl) ==
    IF pnl < 0
    THEN /\ daily_loss' = daily_loss - pnl
         /\ consecutive_losses' = consecutive_losses + 1
         /\ IF consecutive_losses + 1 >= circuit_breaker_losses
            THEN /\ circuit_breaker_active' = TRUE
                 /\ circuit_breaker_time' = now
                 /\ prev_trip' = circuit_breaker_time
            ELSE UNCHANGED <<circuit_breaker_active, circuit_breaker_time, prev_trip>>
    ELSE /\ consecutive_losses' = 0
         /\ UNCHANGED <<daily_loss, circuit_breaker_active, circuit_breaker_time,
                        prev_trip>>

RecordTrade ==
    /\ Len(trades) < MaxTrades
    /\ \E pnl \in Pnls :
        /\ RecordTradeUpdate(pnl)
        /\ trades' = Append(trades, pnl)
        /\ last_trip' = IF TrailingLosses(Append(trades, pnl)) >= circuit_breaker_losses
                        THEN now ELSE last_trip
    /\ UNCHANGED <<total_exposure, clockVars, exceptRisk>>

\* RiskManager::update_exposure
UpdateExposure ==
    /\ \E x \in Exposures : total_exposure' = x
    /\ UNCHANGED <<daily_loss, consecutive_losses, circuit_breaker_active,
                   circuit_breaker_time, trades, last_trip, prev_trip, clockVars,
                   exceptRisk>>

\* RiskManager::reset_daily
ResetDaily ==
    /\ daily_loss' = 0
    /\ consecutive_losses' = 0
    /\ circuit_breaker_active' = FALSE
    /\ circuit_breaker_time' = NoTime
    /\ trades' = << >>
    /\ last_trip' = NoTime
    /\ prev_trip' = NoTime
    /\ UNCHANGED <<total_exposure, clockVars, exceptRisk>>

RiskTick == Tick(RiskTickSteps) /\ UNCHANGED <<riskVars, exceptRisk>>


----------------------------------------------------------------------------
\* RateLimitsConfig and the executor's order expiry

max_orders_per_minute == 2
\* min_interval_ms values the manager may be constructed with
MinIntervals == {0, 1}
\* the rate limiter's window, in seconds
RateWindowSecs == 60
\* expiration the executor puts on every order it sends, in seconds
ExpirationSecs == 90

\* cancel_all calls of the caller that notes them
MaxCancels == 2

\* clock advances seen by the order manager, in ms
OrderTickSteps == {1, RateWindowSecs * 1000 - 1, RateWindowSecs * 1000}

\* (price, size, is_buy) arguments of place_maker_order
OrderArgs == { <<5000, 6250, TRUE>> }

----------------------------------------------------------------------------
\* OrderManager

NoCall == << >>

\* what cancel_all_orders returns when the request failed
CancelFailed == -1

\* no cancel_all has succeeded since the latest placement
NoCancel == [ ret |-> CancelFailed, after_success |-> FALSE ]

\* order_timestamps.retain(|t| now.duration_since(*t).as_secs() < 60)
Retained(ts) == SelectSeq(ts, LAMBDA t : ((now - t) \div 1000) < RateWindowSecs)

\* mutant of CheckRateLimit: the budget comparison is inclusive
CheckRateLimitInclusive(kept) == Len(kept) <= max_orders_per_minute

\* OrderManager::check_rate_limit, on the retained timestamps
CheckRateLimit(kept) == Len(kept) < max_orders_per_minute

\* mutant of IntervalNotMet: the comparison is off by one millisecond
IntervalNotMetOffByOne ==
    /\ last_order_time # NoTime
    /\ now - last_order_time < min_interval_ms - 1

\* the minimum-interval test of place_maker_order
IntervalNotMet ==
    /\ last_order_time # NoTime
    /\ now - last_order_time < min_interval_ms

\* the Order record place_maker_order builds
NewOrder(price, size, is_buy) ==
    [ side |-> IF is_buy THEN "Buy" ELSE "Sell",
      price |-> price,
      size |-> size,
      order_type |-> "Gtc",
      post_only |-> TRUE ]

\* OrderManager::place_maker_order up to its await of execution.place_order
PlaceMakerOrderCall(price, size, is_buy) ==
    /\ om_call = NoCall
    /\ order_timestamps' = Retained(order_timestamps)
    /\ IF ~CheckRateLimit(Retained(order_timestamps))
       THEN /\ om_outcome' = "skipped_rate"
            /\ om_call' = NoCall
       ELSE IF IntervalNotMet
       THEN /\ om_outcome' = "skipped_interval"
            /\ om_call' = NoCall
       ELSE /\ om_outcome' = "awaiting"
            /\ om_call' = << [ order |-> NewOrder(price, size, is_buy),
                               request |-> << >>, resp |-> "pending", id |-> 0,
                               accepted_at |-> NoTime ] >>
    /\ UNCHANGED <<open_orders, last_order_time, min_interval_ms, placed_log,
                   last_cancel>>

\* the PlaceOrderRequest ClobOrderExecutor::place_order builds from an Order
PlaceOrderRequest(order) ==
    [ side |-> IF order.side = "Buy" THEN "BUY" ELSE "SELL",
      price |-> order.price,
      size |-> order.size,
      order_type |-> "GTD",
      post_only |-> TRUE,
      expiration |-> ExpirationSecs ]

\* ClobOrderExecutor::place_order: the request is sent and the CLOB answers it:
\* accepted (the order is open on the book, expiring after ExpirationSecs),
\* rejected, or an error
ExchangeRespond ==
    /\ om_call # NoCall
    /\ om_call[1].resp = "pending"
    /\ LET sent_call == [ om_call[1] EXCEPT
                            !.request = << PlaceOrderRequest(om_call[1].order) >> ]
       IN \/ /\ next_id <= MaxOrders
             /\ om_call' = << [ sent_call EXCEPT !.resp = "accepted", !.id = next_id,
                                                 !.accepted_at = now ] >>
             /\ exch_open' = exch_open @@ (next_id :> now + ExpirationSecs * 1000)
             /\ next_id' = next_id + 1
          \/ /\ om_call' = << [ sent_call EXCEPT !.resp = "rejected" ] >>
             /\ UNCHANGED exchVars
          \/ /\ om_call' = << [ sent_call EXCEPT !.resp = "error" ] >>
             /\ UNCHANGED exchVars
    /\ UNCHANGED <<open_orders, order_timestamps, last_order_time, min_interval_ms,
                   om_outcome, placed_log, last_cancel>>

\* mutant of PlaceMakerOrderReturn: record_order is called for every answer
PlaceMakerOrderReturnRecordsAll ==
    /\ om_call # NoCall
    /\ om_call[1].resp # "pending"
    /\ om_call' = NoCall
    /\ order_timestamps' = Append(order_timestamps, now)
    /\ last_order_time' = now
    /\ IF om_call[1].resp = "accepted"
       THEN /\ open_orders' = open_orders @@ (om_call[1].id :> om_call[1].order)
            /\ om_outcome' = "placed"
            /\ placed_log' = Append(placed_log,
                                    [ accepted_at |-> om_call[1].accepted_at,
                                      recorded_at |-> now ])
       ELSE /\ om_outcome' = om_call[1].resp
            /\ UNCHANGED <<open_orders, placed_log>>
    /\ last_cancel' = IF om_call[1].resp = "accepted" THEN NoCancel ELSE last_cancel
    /\ UNCHANGED <<min_interval_ms, exchVars>>

\* OrderManager::place_maker_order from the answer of execution.place_order on,
\* with record_order inlined
PlaceMakerOrderReturn ==
    /\ om_call # NoCall
    /\ om_call[1].resp # "pending"
    /\ om_call' = NoCall
    /\ IF om_call[1].resp = "accepted"
       THEN /\ open_orders' = open_orders @@ (om_call[1].id :> om_call[1].order)
            /\ order_timestamps' = Append(order_timestamps, now)
            /\ last_order_time' = now
            /\ om_outcome' = "placed"
            /\ placed_log' = Append(placed_log,
                                    [ accepted_at |-> om_call[1].accepted_at,
                                      recorded_at |-> now ])
       ELSE /\ om_outcome' = om_call[1].resp
            /\ UNCHANGED <<open_orders, order_timestamps, last_order_time, placed_log>>
    /\ last_cancel' = IF om_call[1].resp = "accepted" THEN NoCancel ELSE last_cancel
    /\ UNCHANGED <<min_interval_ms, exchVars>>

\* what a cancel_all_orders call may return: the number of orders the CLOB had
\* open and cancelled, or a failure
CancelReturns == { Cardinality(DOMAIN exch_open), CancelFailed }

\* ClobOrderExecutor::cancel_all_orders returning ret: on success the CLOB has
\* cancelled every open order
CancelAllOrders(ret) ==
    IF ret = CancelFailed THEN UNCHANGED exch_open ELSE exch_open' = << >>

\* mutant of CancelAll: the tracked map is not cleared
CancelAllKeepsMap ==
    /\ om_call = NoCall
    /\ \E ret \in CancelReturns :
        /\ CancelAllOrders(ret)
        /\ last_cancel' = [ ret |-> ret,
                            after_success |-> \/ last_cancel.ret # CancelFailed
                                              \/ last_cancel.after_success ]
    /\ UNCHANGED <<open_orders, order_timestamps, last_order_time, min_interval_ms,
                   om_call, om_outcome, placed_log, next_id>>

\* mutant of CancelAll: the map is cleared before the result of the request
\* is looked at
CancelAllClearsFirst ==
    /\ om_call = NoCall
    /\ \E ret \in CancelReturns :
        /\ CancelAllOrders(ret)
        /\ open_orders' = << >>
        /\ last_cancel' = [ ret |-> ret,
                            after_success |-> \/ last_cancel.ret # CancelFailed
                                              \/ last_cancel.after_success ]
    /\ UNCHANGED <<order_timestamps, last_order_time, min_interval_ms, om_call,
                   om_outcome, placed_log, next_id>>

\* OrderManager::cancel_all: execution.cancel_all_orders, then (unless it
\* failed) the map is cleared
CancelAll ==
    /\ om_call = NoCall
    /\ \E ret \in CancelReturns :
        /\ CancelAllOrders(ret)
        /\ open_orders' = IF ret = CancelFailed THEN open_orders ELSE << >>
        /\ last_cancel' = [ ret |-> ret,
                            after_success |-> \/ last_cancel.ret # CancelFailed
                                              \/ last_cancel.after_success ]
    /\ UNCHANGED <<order_timestamps, last_order_time, min_interval_ms, om_call,
                   om_outcome, placed_log, next_id>>

\* the CLOB: an open order is filled or cancelled on the book
ExchangeFill ==
    /\ \E id \in DOMAIN exch_open :
          exch_open' = [ i \in (DOMAIN exch_open) \ {id} |-> exch_open[i] ]
    /\ UNCHANGED <<omVars, next_id>>

\* the CLOB: an order sent with a 90 s expiration expires
ExchangeExpire ==
    /\ \E id \in DOMAIN exch_open :
          /\ now >= exch_open[id]
          /\ exch_open' = [ i \in (DOMAIN exch_open) \ {id} |-> exch_open[i] ]
    /\ UNCHANGED <<omVars, next_id>>

\* a caller of the order manager
OmPlace ==
    /\ \E a \in OrderArgs : PlaceMakerOrderCall(a[1], a[2], a[3])
    /\ UNCHANGED <<exchVars, clockVars, exceptOrders>>

OmExchangeRespond == ExchangeRespond /\ UNCHANGED <<clockVars, exceptOrders>>
OmReturn == PlaceMakerOrderReturn /\ UNCHANGED <<clockVars, exceptOrders>>
OmCancelAll == CancelAll /\ UNCHANGED <<clockVars, exceptOrders>>
\* a caller of cancel_all that notes what the call returned and the tracked
\* map before and after it
OmCancelAllNoted ==
    /\ Len(cancel_log) < MaxCancels
    /\ CancelAll
    /\ cancel_log' = Append(cancel_log, [ ret |-> last_cancel'.ret,
                                          before |-> open_orders,
                                          after |-> open_orders' ])
    /\ UNCHANGED <<clockVars, riskVars, feedVars, engVars, mainVars, storeVars,
                   exceptCaller>>
OmFill == ExchangeFill /\ UNCHANGED <<clockVars, exceptOrders>>
OmExpire == ExchangeExpire /\ UNCHANGED <<clockVars, exceptOrders>>
OmTick == Tick(OrderTickSteps) /\ UNCHANGED <<omVars, exchVars, exceptOrders>>

\* OrderManager::new, and an empty book
OrderInit ==
    /\ open_orders = << >>
    /\ order_timestamps = << >>
    /\ last_order_time = NoTime
    /\ min_interval_ms \in MinIntervals
    /\ om_call = NoCall
    /\ om_outcome = "none"
    /\ placed_log = << >>
    /\ last_cancel = NoCancel
    /\ exch_open = << >>
    /\ next_id = 1


----------------------------------------------------------------------------
\* PolymarketFeed

\* Option::None of an Option<f64>
NoPrice == -1
\* Option::None of an Option<OrderBookSnapshot>
NoSnapshot == [ sequence |-> -1, timestamp_ms |-> -1, best_bid |-> NoPrice,
                best_ask |-> NoPrice ]

\* PolymarketFeed::min_delta_pct (0.005), in 1/1000
min_delta_per_mille == 5

Tokens == {"T1", "T2"}

\* best bid and best ask of a book message (NoPrice: that side is empty)
Books == { <<4900, 5100>>, <<4912, 5112>>, <<5200, 5400>>, <<4900, NoPrice>> }

\* the WebSocket messages: asset id (possibly empty), book, server timestamp
WsMessages ==
    { [ asset_id |-> t, best_bid |-> b[1], best_ask |-> b[2], timestamp |-> ts ] :
        t \in Tokens \cup {""}, b \in Books, ts \in 1..MaxTimestamp }

\* mid_price of handle_message
MidPrice(best_bid, best_ask) ==
    IF best_bid # NoPrice /\ best_ask # NoPrice
    THEN (best_bid + best_ask) \div 2
    ELSE NoPrice

Abs(x) == IF x < 0 THEN -x ELSE x

\* ((mid - last) / last).abs() < min_delta_pct
DeltaBelowThreshold(mid, last) ==
    Abs(mid - last) * 1000 < min_delta_per_mille * last

\* the debounce test of handle_message: the message is dropped
Debounced(mid, last) ==
    /\ mid # NoPrice
    /\ last # NoPrice
    /\ DeltaBelowThreshold(mid, last)

\* the top of the book a message carries, with its timestamp
BookOf(msg) ==
    [ best_bid |-> msg.best_bid, best_ask |-> msg.best_ask,
      mid_price |-> MidPrice(msg.best_bid, msg.best_ask),
      timestamp_ms |-> msg.timestamp ]
NoBook == [ best_bid |-> NoPrice, best_ask |-> NoPrice, mid_price |-> NoPrice,
            timestamp_ms |-> NoTime ]

\* handle_message from the debounce test on, for a message with a token id
HandleParsed(msg, tok, mid) ==
    IF Debounced(mid, last_mid[tok])
    THEN UNCHANGED <<last_mid, last_snapshot, emitted>>
    ELSE /\ last_mid' = [last_mid EXCEPT ![tok] = mid]
         /\ last_snapshot' = [last_snapshot EXCEPT ![tok] =
                [ sequence |-> msg.timestamp, timestamp_ms |-> msg.timestamp,
                  best_bid |-> msg.best_bid, best_ask |-> msg.best_ask ]]
         /\ emitted' = [emitted EXCEPT ![tok] = Append(@, BookOf(msg))]

\* PolymarketFeed::handle_message
HandleMessage ==
    /\ handled < MaxMsgs
    /\ handled' = handled + 1
    /\ \E msg \in WsMessages :
        LET mid == MidPrice(msg.best_bid, msg.best_ask)
            tok == msg.asset_id
        IN  IF tok = ""
            THEN UNCHANGED <<last_mid, last_snapshot, emitted, last_parsed>>
            ELSE /\ last_parsed' = [last_parsed EXCEPT ![tok] = BookOf(msg)]
                 /\ HandleParsed(msg, tok, mid)
    /\ UNCHANGED exceptFeed

\* PolymarketFeed::new; token states are created with nothing emitted yet
FeedInit ==
    /\ last_mid = [t \in Tokens |-> NoPrice]
    /\ last_snapshot = [t \in Tokens |-> NoSnapshot]
    /\ emitted = [t \in Tokens |-> << >>]
    /\ last_parsed = [t \in Tokens |-> NoBook]
    /\ handled = 0


----------------------------------------------------------------------------
\* StateStore (state.json and state.json.tmp in the data directory)

\* number of writes in which the serialized snapshot reaches the temp file
MaxChunks == 2
\* number of save calls
MaxSaves == 3

\* the snapshots given to save
StoreSnapshots ==
    { [ open_orders |-> n, daily_loss |-> d, cumulative_pnl |-> 0 ] :
        n \in {0, 1}, d \in {0, 1000} }

NoSnap == [ open_orders |-> -1, daily_loss |-> -1, cumulative_pnl |-> -1 ]
\* a path at which no file exists
NoFile == [ snap |-> NoSnap, chunks |-> -1 ]
\* a file holding the first k chunks of the JSON of snapshot s
FileOf(s, k) == [ snap |-> s, chunks |-> k ]
Complete(f) == f.chunks = MaxChunks

\* StateStore::save: the JSON is serialized and fs::write creates or truncates
\* the temp file
StoreSave ==
    /\ store_pc = "idle"
    /\ saves < MaxSaves
    /\ saves' = saves + 1
    /\ \E s \in StoreSnapshots :
        /\ saving' = s
        /\ tmp_file' = FileOf(s, 0)
    /\ store_pc' = "writing"
    /\ UNCHANGED <<state_file, loaded>>

\* mutant of StoreWrite: the JSON is written to state.json itself
StoreWriteInPlace ==
    /\ store_pc = "writing"
    /\ state_file' = FileOf(saving, tmp_file.chunks + 1)
    /\ tmp_file' = FileOf(saving, tmp_file.chunks + 1)
    /\ store_pc' = IF tmp_file.chunks + 1 = MaxChunks THEN "rename" ELSE "writing"
    /\ UNCHANGED <<saving, saves, loaded>>

\* fs::write writes the next part of the JSON to the temp file
StoreWrite ==
    /\ store_pc = "writing"
    /\ tmp_file' = FileOf(saving, tmp_file.chunks + 1)
    /\ store_pc' = IF tmp_file.chunks + 1 = MaxChunks THEN "rename" ELSE "writing"
    /\ UNCHANGED <<state_file, saving, saves, loaded>>

\* fs::rename replaces state.json by the temp file in one step
StoreRename ==
    /\ store_pc = "rename"
    /\ state_file' = tmp_file
    /\ tmp_file' = NoFile
    /\ store_pc' = "idle"
    /\ UNCHANGED <<saving, saves, loaded>>

\* the write or the rename fails and save returns the error, or the process
\* crashes and is started again: the files stay as they are
StoreFail ==
    /\ store_pc \in {"writing", "rename"}
    /\ store_pc' = "idle"
    /\ UNCHANGED <<state_file, tmp_file, saving, saves, loaded>>

\* what load returns
LoadResult(kind, s) == [ result |-> kind, snap |-> s ]

\* what serde_json::from_str makes of the content of state.json
ParseState(f) ==
    IF Complete(f) THEN LoadResult("some", f.snap) ELSE LoadResult("error", NoSnap)

\* StateStore::load, at any moment (also while a save is in progress)
StoreLoad ==
    /\ loaded' = IF state_file = NoFile THEN LoadResult("none", NoSnap)
                 ELSE ParseState(state_file)
    /\ UNCHANGED <<state_file, tmp_file, store_pc, saving, saves>>

\* the files a whole save call of snapshot s leaves behind: it succeeded, its
\* write failed part-way, or its rename failed
SaveOutcome(s) ==
    \/ state_file' = FileOf(s, MaxChunks) /\ tmp_file' = NoFile
    \/ \E k \in 0..(MaxChunks - 1) : tmp_file' = FileOf(s, k) /\ UNCHANGED state_file
    \/ tmp_file' = FileOf(s, MaxChunks) /\ UNCHANGED state_file

\* StateStore::new on an empty data directory
StoreInit ==
    /\ state_file = NoFile
    /\ tmp_file = NoFile
    /\ store_pc = "idle"
    /\ saving = NoSnap
    /\ saves = 0
    /\ loaded = LoadResult("not called", NoSnap)

exceptStore == <<clockVars, riskVars, omVars, exchVars, feedVars, engVars, mainVars,
                 aloneVars>>

----------------------------------------------------------------------------
\* Domain primitives used by the engine (prices in 1/10000, money in cents)

Scale == 10000

\* LmsrConfig
min_edge == 200
kelly_fraction_pct == 25
alpha_pct == 70
\* KellySizer::new: max_position_fraction = 0.0625, in 1/10000
max_position_fraction == 625

Min(a, b) == IF a < b THEN a ELSE b
Max(a, b) == IF a > b THEN a ELSE b

\* BayesianEstimator::update: the new smoothed probability
EstimatorUpdate(observation) ==
    IF smoothed_prob = NoPrice
    THEN observation
    ELSE (smoothed_prob * (100 - alpha_pct) + observation * alpha_pct) \div 100

\* mutant of Price: the fair value is shaded ten points under the probability
PriceShaded(estimated_prob) == Min(Max(estimated_prob - 1000, 100), 9900)

\* LmsrPricer::price
Price(estimated_prob) == Min(Max(estimated_prob, 100), 9900)

\* mutant of NetEdge: the market price is not subtracted
NetEdgeIgnoringMarket(fair_value, market_price, is_buy) == fair_value

\* FeeCalculator::net_edge of the maker calculator (fee 0)
NetEdge(fair_value, market_price, is_buy) ==
    IF is_buy THEN fair_value - market_price - 0
    ELSE market_price - fair_value - 0

RECURSIVE Gcd(_, _)
Gcd(a, b) == IF b = 0 THEN a ELSE Gcd(b, a % b)

\* the fraction num/den in lowest terms
Fraction(num, den) == [num |-> num \div Gcd(num, den), den |-> den \div Gcd(num, den)]

\* KellyCriterion::optimal_fraction, as a fraction num/den of the bankroll.
\* With b = (1-m)/m the full Kelly (p*b - q)/b is (p*(1-m) - (1-p)*m) / (1-m);
\* at scale 10000 its numerator is a multiple of the scale, divided out exactly.
OptimalFraction(estimated_prob, market_price) ==
    IF market_price <= 0 \/ market_price >= Scale
    THEN [num |-> 0, den |-> 1]
    ELSE LET fullNum == (estimated_prob * (Scale - market_price)
                          - (Scale - estimated_prob) * market_price) \div Scale
             fullDen == Scale - market_price
         IN  IF fullNum <= 0
             THEN [num |-> 0, den |-> 1]
             ELSE IF fullNum * kelly_fraction_pct * 100 >= max_position_fraction * fullDen
             THEN Fraction(max_position_fraction, Scale)
             ELSE Fraction(fullNum * kelly_fraction_pct, fullDen * 100)

\* Decimal::round_dp(2) of n/d cents (midpoint to even, on the magnitude)
RoundHalfEven(n, d) ==
    LET a == Abs(n)
        q == a \div d
        r == a % d
        m == IF 2 * r < d THEN q
             ELSE IF 2 * r > d THEN q + 1
             ELSE IF q % 2 = 0 THEN q ELSE q + 1
    IN  IF n < 0 THEN -m ELSE m

\* mutant of OptimalSize: sizes against the bankroll without the Kelly fraction
OptimalSizeWholeBankroll(estimated_prob, market_price, bankroll) == bankroll

\* KellySizer::optimal_size (KellyCriterion::position_size_usdc), in cents
OptimalSize(estimated_prob, market_price, bankroll) ==
    LET f == OptimalFraction(estimated_prob, market_price)
    IN  RoundHalfEven(bankroll * f.num, f.den)

\* arguments of optimal_size: probabilities in 1/10000, bankroll in cents
SizerProbs == {0, 3000, 5000, 5100, 7000, 9900}
SizerMarkets == {-100, 0, 3000, 5000, 7000, Scale, 12000}
SizerBankrolls == {-100000, 0, 10, 100000, 100010}
SizerInputs ==
    { [ estimated_prob |-> p, market_price |-> m, bankroll |-> b ] :
        p \in SizerProbs, m \in SizerMarkets, b \in SizerBankrolls }
NoSizerInput == [ estimated_prob |-> NoPrice, market_price |-> NoPrice, bankroll |-> 0 ]

\* KellySizer::optimal_size is called on the arguments and returns
OptimalSizeCall ==
    /\ sizer_in # NoSizerInput
    /\ sizer_out = << >>
    /\ sizer_out' = << OptimalSize(sizer_in.estimated_prob, sizer_in.market_price,
                                   sizer_in.bankroll) >>
    /\ UNCHANGED <<sizer_in, exceptSizer>>

\* no optimal_size call is being looked at
SizerIdle ==
    /\ sizer_in = NoSizerInput
    /\ sizer_out = << >>

----------------------------------------------------------------------------
\* ClobAuth: nonces

\* ClobAuth instances created in the process
MaxAuths == 2
\* generate_nonce calls
MaxNonces == 4
\* milliseconds between the first and the last ClobAuth::from_env
MaxSeedMs == 2

\* ClobAuth::from_env: nonce_seed is the system time in ms (counted from the
\* first instance's, and not before the previous instance's)
FromEnv ==
    /\ Len(auth_seeds) < MaxAuths
    /\ \E nonce_seed \in 0..MaxSeedMs :
        /\ auth_seeds # << >> => nonce_seed >= auth_seeds[Len(auth_seeds)]
        /\ auth_seeds = << >> => nonce_seed = 0
        /\ auth_seeds' = Append(auth_seeds, nonce_seed)
    /\ UNCHANGED <<nonce_counter, nonces, exceptNonce>>

\* ClobAuth::generate_nonce on instance a: the fetch_add is atomic and the
\* value returned is fixed by it, whatever the callers' interleaving (the
\* counter stays far from the u64 range here)
GenerateNonce ==
    /\ Len(nonces) < MaxNonces
    /\ \E a \in 1..Len(auth_seeds) :
        LET counter == nonce_counter
        IN  /\ nonce_counter' = nonce_counter + 1
            /\ nonces' = Append(nonces, [ auth |-> a,
                                           nonce |-> auth_seeds[a] + counter ])
    /\ UNCHANGED <<auth_seeds, exceptNonce>>

\* process start: NONCE_COUNTER is 0 and no ClobAuth exists
NonceInit ==
    /\ nonce_counter = 0
    /\ auth_seeds = << >>
    /\ nonces = << >>

----------------------------------------------------------------------------
\* ClobClient: execute_with_retry

\* execute_with_retry calls
MaxHttpCalls == 2

\* ClobClientConfig::default().max_retries
max_retries == 3

Methods == {"GET", "POST", "DELETE"}
\* req.send() failed: no response
TransportError == 0
\* status codes of the responses
Statuses == {200, 201, 204, 400, 404, 429, 500, 503}
Outcomes == Statuses \cup {TransportError}

\* StatusCode::is_server_error, is_client_error
IsServerError(status) == status >= 500 /\ status <= 599
IsClientError(status) == status >= 400 /\ status <= 499

\* mutant of Continues: every client error is retried like 429
ContinuesOnClientError(outcome) ==
    \/ outcome = TransportError
    \/ IsClientError(outcome)
    \/ IsServerError(outcome)

\* ClobClientConfig::default().retry_base_delay, in ms
retry_base_delay == 200

\* let mut last_error = None
NoError == -1

RECURSIVE Pow2(_)
\* 2u32.pow(n)
Pow2(n) == IF n = 0 THEN 1 ELSE 2 * Pow2(n - 1)

\* mutant of MoreAttempts: the range of the loop is one attempt longer
MoreAttemptsOffByOne == attempt <= max_retries

\* for attempt in 0..=max_retries: another iteration follows this one
MoreAttempts == attempt < max_retries

\* the arms of the match on req.send() that end in `continue`
Continues(outcome) ==
    \/ outcome = TransportError
    \/ outcome = 429
    \/ IsServerError(outcome)

\* get, post or delete: execute_with_retry is entered
HttpCall ==
    /\ http_pc \in {"idle", "returned"}
    /\ http_calls < MaxHttpCalls
    /\ http_calls' = http_calls + 1
    /\ \E m \in Methods : http_method' = m
    /\ http_pc' = "sending"
    /\ attempt' = 0
    /\ sent' = << >>
    /\ http_result' = "none"
    /\ last_error' = NoError
    /\ delays' = << >>
    /\ UNCHANGED exceptHttp

\* one iteration of the retry loop: the backoff sleep of a retry, then the
\* request is sent and meets an outcome (a 429 is followed by a further sleep
\* of 2 s before the next iteration)
HttpSend ==
    /\ http_pc = "sending"
    /\ delays' = IF attempt > 0
                 THEN Append(delays, retry_base_delay * Pow2(attempt - 1))
                 ELSE delays
    /\ \E outcome \in Outcomes :
        /\ sent' = Append(sent, outcome)
        /\ IF outcome \in {200, 201}
           THEN /\ http_result' = "ok"
                /\ http_pc' = "returned"
                /\ UNCHANGED <<attempt, last_error>>
           ELSE IF Continues(outcome)
           THEN /\ last_error' = outcome
                /\ IF MoreAttempts
                   THEN /\ attempt' = attempt + 1
                        /\ UNCHANGED <<http_pc, http_result>>
                   ELSE /\ http_result' = "last_error"
                        /\ http_pc' = "returned"
                        /\ UNCHANGED attempt
           ELSE /\ http_result' = "api_error"
                /\ http_pc' = "returned"
                /\ UNCHANGED <<attempt, last_error>>
    /\ UNCHANGED <<http_method, http_calls, exceptHttp>>

\* ClobClient::new
HttpInit ==
    /\ http_method = ""
    /\ http_pc = "idle"
    /\ attempt = 0
    /\ sent = << >>
    /\ http_result = "none"
    /\ http_calls = 0
    /\ last_error = NoError
    /\ delays = << >>

----------------------------------------------------------------------------
\* ConfigWatcher (config hot reload)

\* edits of config.toml while the bot runs
MaxEdits == 2
\* 60 s ticks of the watcher
MaxChecks == 3

\* lmsr.min_edge values an edit writes, in 1/10000; validate_config rejects 1.0
FileMinEdges == {min_edge, 5000, Scale}

\* hash of the file's content (two contents with one hash are not considered)
ComputeHash(content) == content

\* load_config: validate_config accepts min_edge in [0, 1)
LoadConfigOk(content) == content >= 0 /\ content < Scale

\* somebody edits config.toml
EditConfig ==
    /\ edits < MaxEdits
    /\ edits' = edits + 1
    /\ \E e \in FileMinEdges : e # config_file /\ config_file' = e
    /\ UNCHANGED <<last_hash, watch_config, watcher_pc, reload_log, exceptWatcher>>

\* ConfigWatcher::run up to its loop: the initial hash is computed
WatcherRun ==
    /\ watcher_pc = "spawned"
    /\ watcher_pc' = "running"
    /\ last_hash' = ComputeHash(config_file)
    /\ UNCHANGED <<config_file, watch_config, edits, reload_log, exceptWatcher>>

\* mutant of HashAfterFailedReload: the hash of the rejected file is recorded
HashAdvancedOnFailure(new_hash) == new_hash

\* the Err arm of check_and_reload leaves self.last_hash as it is
HashAfterFailedReload(new_hash) == last_hash

\* the 60 s sleep of the select has elapsed with no shutdown pending:
\* check_and_reload
CheckAndReload ==
    /\ watcher_pc = "running"
    /\ ~shutdown_sent
    /\ Len(reload_log) < MaxChecks
    /\ LET new_hash == ComputeHash(config_file)
       IN  IF new_hash = last_hash
           THEN /\ reload_log' = Append(reload_log, "unchanged")
                /\ UNCHANGED <<last_hash, watch_config>>
           ELSE IF LoadConfigOk(config_file)
           THEN /\ last_hash' = new_hash
                /\ watch_config' = config_file
                /\ reload_log' = Append(reload_log, "published")
           ELSE /\ last_hash' = HashAfterFailedReload(new_hash)
                /\ reload_log' = Append(reload_log, "failed")
                /\ UNCHANGED watch_config
    /\ UNCHANGED <<config_file, watcher_pc, edits, exceptWatcher>>

\* the shutdown branch of the watcher's select
WatcherShutdown ==
    /\ watcher_pc = "running"
    /\ shutdown_sent
    /\ watcher_pc' = "stopped"
    /\ UNCHANGED <<config_file, last_hash, watch_config, edits, reload_log,
                   exceptWatcher>>

\* ConfigWatcher::new in main, on the configuration loaded at startup
WatcherInit ==
    /\ config_file = min_edge
    /\ last_hash = NoPrice
    /\ watch_config = min_edge
    /\ watcher_pc = "spawned"
    /\ edits = 0
    /\ reload_log = << >>

----------------------------------------------------------------------------
\* The feed tasks and FeedSupervisor

\* messages a feed task reads from its stream
MaxFeedMsgs == 1

Feeds == {"polymarket", "binance", "coinbase"}
\* the feeds FeedSupervisor::spawn wraps
Supervised == {"binance", "coinbase"}
\* the feeds whose streaming select is biased towards shutdown, and whose
\* reconnect backoff is a select over shutdown and the 5 s sleep
ShutdownAware == {"polymarket"}

\* the endpoint of a feed becomes unreachable, or reachable again
NetFail(f) ==
    /\ ~net_down[f]
    /\ net_down' = [net_down EXCEPT ![f] = TRUE]
    /\ UNCHANGED <<feed_pc, feed_msgs, connected, exceptTasks>>

NetRestore(f) ==
    /\ net_down[f]
    /\ net_down' = [net_down EXCEPT ![f] = FALSE]
    /\ UNCHANGED <<feed_pc, feed_msgs, connected, exceptTasks>>

\* the spawned task starts: the supervisor's wrapper stores connected = true,
\* then run is entered
TaskStart(f) ==
    /\ feed_pc[f] = "spawned"
    /\ feed_pc' = [feed_pc EXCEPT ![f] = "connecting"]
    /\ connected' = IF f \in Supervised THEN [connected EXCEPT ![f] = TRUE]
                    ELSE connected
    /\ UNCHANGED <<net_down, feed_msgs, exceptTasks>>

\* connect_and_stream: connect_async succeeds, or fails and run goes to its
\* backoff
Connect(f) ==
    /\ feed_pc[f] = "connecting"
    /\ feed_pc' = [feed_pc EXCEPT ![f] = IF net_down[f] THEN "backoff" ELSE "streaming"]
    /\ UNCHANGED <<net_down, feed_msgs, connected, exceptTasks>>

\* the streaming select takes a text message and handles it
StreamMessage(f) ==
    /\ feed_pc[f] = "streaming"
    /\ ~net_down[f]
    /\ f \in ShutdownAware => ~shutdown_sent
    /\ feed_msgs[f] < MaxFeedMsgs
    /\ feed_msgs' = [feed_msgs EXCEPT ![f] = @ + 1]
    /\ UNCHANGED <<feed_pc, net_down, connected, exceptTasks>>

\* the streaming select takes a stream error or the end of the stream:
\* connect_and_stream returns Err and run goes to its backoff
StreamError(f) ==
    /\ feed_pc[f] = "streaming"
    /\ net_down[f]
    /\ f \in ShutdownAware => ~shutdown_sent
    /\ feed_pc' = [feed_pc EXCEPT ![f] = "backoff"]
    /\ UNCHANGED <<net_down, feed_msgs, connected, exceptTasks>>

\* the streaming select takes the shutdown branch: connect_and_stream returns
\* Ok and run returns
StreamShutdown(f) ==
    /\ feed_pc[f] = "streaming"
    /\ shutdown_sent
    /\ feed_pc' = [feed_pc EXCEPT ![f] = "returned"]
    /\ UNCHANGED <<net_down, feed_msgs, connected, exceptTasks>>

\* the 5 s of the reconnect backoff have elapsed: run loops
BackoffElapsed(f) ==
    /\ feed_pc[f] = "backoff"
    /\ feed_pc' = [feed_pc EXCEPT ![f] = "connecting"]
    /\ UNCHANGED <<net_down, feed_msgs, connected, exceptTasks>>

\* PolymarketFeed::run: the shutdown branch of the select around the backoff
BackoffShutdown(f) ==
    /\ f \in ShutdownAware
    /\ feed_pc[f] = "backoff"
    /\ shutdown_sent
    /\ feed_pc' = [feed_pc EXCEPT ![f] = "returned"]
    /\ UNCHANGED <<net_down, feed_msgs, connected, exceptTasks>>

\* FeedSupervisor::is_healthy, is_fully_healthy
IsHealthy == connected["binance"] \/ connected["coinbase"]
IsFullyHealthy == connected["binance"] /\ connected["coinbase"]

\* FeedSupervisor::new and the tasks as spawned
TaskInit ==
    /\ feed_pc = [f \in Feeds |-> "spawned"]
    /\ net_down = [f \in Feeds |-> FALSE]
    /\ feed_msgs = [f \in Feeds |-> 0]
    /\ connected = [f \in Feeds |-> FALSE]

----------------------------------------------------------------------------
\* Settlement: the settlement sweep

\* positions passed to one sweep
MaxPositions == 3

\* Settlement::with_config(chain, repo, min_redemption_value, max_batch_size)
max_batch_size == 2

\* what check_resolution makes of a position: the market is resolved or
\* voided (queued), pending (skipped), or the query failed
Resolutions == {"resolved", "pending", "error"}

\* RedemptionResult: positions_redeemed and usdc_recovered (in cents; every
\* amount is a multiple of every non-zero count, so that the division is exact)
RedeemedCounts == {0, 1, 2, 3}
RecoveredAmounts == {0, 600}

NoReport == [ total_usdc_recovered |-> -1, markets_settled |-> -1,
              markets_failed |-> -1 ]

\* a SettlementResult
Result(success, usdc_recovered) ==
    [ success |-> success, usdc_recovered |-> usdc_recovered ]

\* n copies of x
Repeat(x, n) == [ i \in 1..n |-> x ]

RECURSIVE SumRecovered(_)
\* results.iter().filter(|r| r.success).map(|r| r.usdc_recovered).sum()
SumRecovered(rs) ==
    IF rs = << >> THEN 0
    ELSE (IF Head(rs).success THEN Head(rs).usdc_recovered ELSE 0)
         + SumRecovered(Tail(rs))

\* the number of results with the given success flag
CountResults(rs, success) ==
    Cardinality({ i \in 1..Len(rs) : rs[i].success = success })

\* mutant of PerPosition: the recovered amount is divided by the batch's size
PerPositionOfChunk(redemption, chunk_len) == redemption.usdc_recovered \div chunk_len

\* batch_redeem: the share of the recovered USDC each position of the chunk gets
PerPosition(redemption, chunk_len) ==
    IF redemption.positions_redeemed > 0
    THEN redemption.usdc_recovered \div redemption.positions_redeemed
    ELSE 0

\* Settlement::sweep, phase 1: check_resolution for each position
SweepStart ==
    /\ settle_pc \in {"idle", "reported"}
    /\ \E n \in 0..MaxPositions : \E status \in [1..n -> Resolutions] :
          /\ redeemable' = Cardinality({ i \in 1..n : status[i] = "resolved" })
          /\ results' = Repeat(Result(FALSE, 0),
                               Cardinality({ i \in 1..n : status[i] = "error" }))
    /\ settle_pc' = "redeeming"
    /\ chain_log' = << >>
    /\ report' = NoReport
    /\ UNCHANGED exceptSettle

\* Settlement::batch_redeem: one chunk is submitted and the chain answers
BatchRedeemChunk ==
    /\ settle_pc = "redeeming"
    /\ redeemable > 0
    /\ LET chunk_len == IF redeemable < max_batch_size THEN redeemable
                        ELSE max_batch_size
       IN  /\ redeemable' = redeemable - chunk_len
           /\ \/ \E k \in RedeemedCounts : \E amount \in RecoveredAmounts :
                    LET redemption == [ ok |-> TRUE, positions_redeemed |-> k,
                                        usdc_recovered |-> amount ]
                    IN  /\ chain_log' = Append(chain_log, redemption)
                        /\ results' = results \o
                              Repeat(Result(TRUE, PerPosition(redemption, chunk_len)),
                                     chunk_len)
              \/ /\ chain_log' = Append(chain_log,
                        [ ok |-> FALSE, positions_redeemed |-> 0, usdc_recovered |-> 0 ])
                 /\ results' = results \o Repeat(Result(FALSE, 0), chunk_len)
    /\ UNCHANGED <<settle_pc, report, exceptSettle>>

\* Settlement::sweep, phase 3: the report is built and returned
SweepReport ==
    /\ settle_pc = "redeeming"
    /\ redeemable = 0
    /\ report' = [ total_usdc_recovered |-> SumRecovered(results),
                   markets_settled |-> CountResults(results, TRUE),
                   markets_failed |-> CountResults(results, FALSE) ]
    /\ settle_pc' = "reported"
    /\ UNCHANGED <<redeemable, results, chain_log, exceptSettle>>

\* Settlement::new
SettleInit ==
    /\ settle_pc = "idle"
    /\ redeemable = 0
    /\ results = << >>
    /\ chain_log = << >>
    /\ report = NoReport

----------------------------------------------------------------------------
\* ArbitrageEngine and the shutdown sequence of main

\* the receivers of subscribe_many, in subscription order
Subscriptions == <<"T1", "T2">>

\* (mid_price, best_ask, best_bid) of the PriceUpdates a feed sends to the
\* engine: all of them on the first market's token, one of them on the second's
EngineUpdates ==
    { <<5000, 4000, 6000>>, <<5000, 5000, 5000>>, <<9960, 9700, 10220>>,
      <<9960, 10200, 9720>>, <<NoPrice, 4000, NoPrice>>, <<Scale, 4000, 16000>> }
UpdatesOn(t) == IF t = Subscriptions[1] THEN EngineUpdates ELSE { <<9960, 9700, 10220>> }

\* available_balance answers, in cents
Bankrolls == {4000, 100000, 200000}

NoUpdate == [ token |-> "", estimated_prob |-> NoPrice, fair_value |-> NoPrice,
              edge |-> 0 ]

\* updates sent to the engine's receivers so far
SentUpdates == Len(consumed) + Len(rx["T1"]) + Len(rx["T2"])

\* a MarketFeed implementation sends a PriceUpdate on a token's channel, where
\* it waits in the engine's receiver
FeedSend ==
    /\ main_pc # "exited"
    /\ SentUpdates < MaxUpdates
    /\ \E t \in Tokens : \E u \in UpdatesOn(t) :
          /\ ~rx_closed[t]
          /\ rx' = [rx EXCEPT ![t] = Append(@,
                 [ token |-> t, best_bid |-> u[3], best_ask |-> u[2],
                   mid_price |-> u[1] ])]
    /\ UNCHANGED <<smoothed_prob, pc, cur, consumed, balances, place_calls,
                   clockVars, riskVars, omVars, exchVars, feedVars, mainVars,
                   storeVars, aloneVars>>

\* RecvError::Lagged(n) waiting in a receiver: the channel overran and n
\* updates were dropped
LagNotice(t, n) == [ token |-> t, lagged |-> n ]
IsLagNotice(event) == "lagged" \in DOMAIN event

\* the channel of a token overruns: its receiver loses the oldest update it
\* had not read and finds a lag notice in its place
FeedLag ==
    /\ main_pc # "exited"
    /\ \E t \in Tokens :
          /\ rx[t] # << >>
          /\ ~IsLagNotice(Head(rx[t]))
          /\ rx' = [rx EXCEPT ![t] = << LagNotice(t, 1) >> \o Tail(@)]
    /\ UNCHANGED <<smoothed_prob, pc, cur, consumed, balances, place_calls,
                   clockVars, riskVars, omVars, exchVars, feedVars, mainVars,
                   storeVars, aloneVars>>

\* the feed drops the sender of a token's channel: once the receiver has read
\* what is left, its recv() answers RecvError::Closed
FeedClose ==
    /\ main_pc # "exited"
    /\ \E t \in Tokens :
          /\ ~rx_closed[t]
          /\ rx_closed' = [rx_closed EXCEPT ![t] = TRUE]
    /\ UNCHANGED <<exceptAlone, exceptChan>>

\* mutant of FirstReady: the receivers are polled from the last one
LastReady ==
    LET ready == { i \in 1..Len(Subscriptions) : rx[Subscriptions[i]] # << >> }
    IN  IF ready = {} THEN 0 ELSE CHOOSE i \in ready : \A j \in ready : i >= j

\* recv_first_event's poll_fn: index in Subscriptions of the first receiver
\* whose recv() is ready with an update or a lag notice (0: none); a receiver
\* that is empty, closed or not, is passed over
FirstReady ==
    LET ready == { i \in 1..Len(Subscriptions) : rx[Subscriptions[i]] # << >> }
    IN  IF ready = {} THEN 0 ELSE CHOOSE i \in ready : \A j \in ready : i <= j

\* mutant of ShutdownObserved: the select has no shutdown branch
ShutdownNeverObserved == FALSE

\* recv_first_event: shutdown_rx.recv() is ready, and the biased select polls it
\* before the feed receivers
ShutdownObserved == shutdown_sent

\* ArbitrageEngine::run: recv_first_event, then process_update up to its first
\* await (steps 1 to 6)
EngineRecv ==
    /\ main_pc # "exited"
    /\ pc = "recv"
    /\ IF ShutdownObserved
       THEN /\ pc' = "stopped"
            /\ UNCHANGED <<smoothed_prob, rx, cur, consumed>>
       ELSE IF FirstReady # 0 /\ IsLagNotice(Head(rx[Subscriptions[FirstReady]]))
       THEN \* FeedEvent::Lagged: run logs a warning
            /\ rx' = [rx EXCEPT ![Subscriptions[FirstReady]] = Tail(@)]
            /\ UNCHANGED <<smoothed_prob, pc, cur, consumed>>
       ELSE /\ FirstReady # 0
            /\ LET tok == Subscriptions[FirstReady]
                   update == Head(rx[tok])
                   mid == update.mid_price
                   est == EstimatorUpdate(mid)
                   fair == Price(est)
                   edge == IF update.best_ask # NoPrice
                           THEN NetEdge(fair, update.best_ask, TRUE) ELSE 0
               IN  /\ rx' = [rx EXCEPT ![tok] = Tail(@)]
                   /\ consumed' = Append(consumed,
                          [ token |-> update.token, best_bid |-> update.best_bid,
                            best_ask |-> update.best_ask,
                            mid_price |-> update.mid_price, can_trade |-> CanTrade ])
                   /\ IF ~(mid # NoPrice /\ mid > 0 /\ mid < Scale)
                      THEN UNCHANGED <<smoothed_prob, pc, cur>>
                      ELSE /\ smoothed_prob' = est
                           /\ IF Abs(edge) < min_edge \/ ~CanTrade
                              THEN UNCHANGED <<pc, cur>>
                              ELSE /\ pc' = "balance"
                                   /\ cur' = [ token |-> tok, estimated_prob |-> est,
                                               fair_value |-> fair, edge |-> edge ]
    /\ UNCHANGED <<balances, place_calls, clockVars, riskVars, omVars, exchVars,
                   feedVars, mainVars, storeVars, aloneVars>>

\* process_update from the answer of available_balance to the place_order
\* call inside place_maker_order (steps 7, 8)
EngineBalance ==
    /\ main_pc # "exited"
    /\ pc = "balance"
    /\ cur' = NoUpdate
    /\ \/ \* available_balance failed: the error is logged by run
          /\ pc' = "recv"
          /\ UNCHANGED <<balances, place_calls, omVars>>
       \/ \E bankroll \in Bankrolls :
            LET kelly_size == OptimalSize(cur.estimated_prob, cur.fair_value, bankroll)
            IN  /\ balances' = Append(balances, bankroll)
                /\ IF kelly_size < 100
                   THEN /\ pc' = "recv"
                        /\ UNCHANGED <<place_calls, omVars>>
                   ELSE /\ PlaceMakerOrderCall(cur.fair_value, kelly_size, cur.edge > 0)
                        /\ IF om_outcome' = "awaiting"
                           THEN /\ pc' = "place"
                                /\ place_calls' = Append(place_calls,
                                      [ order |-> om_call'[1].order,
                                        bankroll |-> bankroll,
                                        after_shutdown |-> shutdown_sent,
                                        after_cancel_all |->
                                            main_pc \in {"cancelled", "saved"} ])
                           ELSE /\ pc' = "recv"
                                /\ UNCHANGED place_calls
    /\ UNCHANGED <<smoothed_prob, rx, consumed, clockVars, riskVars, exchVars,
                   feedVars, mainVars, storeVars, aloneVars>>

\* the CLOB answers the engine's place_order call
EngineExchangeRespond ==
    /\ main_pc # "exited"
    /\ pc = "place"
    /\ ExchangeRespond
    /\ UNCHANGED <<clockVars, riskVars, feedVars, engVars, mainVars, storeVars, aloneVars>>

\* mutant of EnginePlaceReturn: run propagates the error of process_update
\* with `?` and returns
EnginePlaceReturnPropagates ==
    /\ main_pc # "exited"
    /\ pc = "place"
    /\ PlaceMakerOrderReturn
    /\ pc' = IF om_call[1].resp = "error" THEN "stopped" ELSE "recv"
    /\ UNCHANGED <<smoothed_prob, rx, cur, consumed, balances, place_calls,
                   clockVars, riskVars, feedVars, mainVars, storeVars, aloneVars>>

\* place_maker_order returns into process_update, which returns into run
EnginePlaceReturn ==
    /\ main_pc # "exited"
    /\ pc = "place"
    /\ PlaceMakerOrderReturn
    /\ pc' = "recv"
    /\ UNCHANGED <<smoothed_prob, rx, cur, consumed, balances, place_calls,
                   clockVars, riskVars, feedVars, mainVars, storeVars, aloneVars>>

\* main: SIGINT received, shutdown_tx.send(())
MainSignal ==
    /\ main_pc = "running"
    /\ shutdown_sent' = TRUE
    /\ main_pc' = "signalled"
    /\ UNCHANGED <<shutdown_cancels, clockVars, riskVars, omVars, exchVars,
                   feedVars, engVars, storeVars, aloneVars>>

\* main: executor.cancel_all_orders(), which succeeds or fails
MainCancelAll ==
    /\ main_pc = "signalled"
    /\ main_pc' = "cancelled"
    /\ \E ret \in CancelReturns : CancelAllOrders(ret)
    /\ shutdown_cancels' = shutdown_cancels + 1
    /\ UNCHANGED <<next_id, shutdown_sent, clockVars, riskVars, omVars, feedVars,
                   engVars, storeVars, aloneVars>>

\* the snapshot main builds at shutdown
FinalState == [ open_orders |-> 0, daily_loss |-> 0, cumulative_pnl |-> 0 ]

\* mutant of MainSaveState: the snapshot is saved before cancel_all_orders
MainSaveStateFirst ==
    /\ main_pc = "signalled"
    /\ main_pc' = "saved"
    /\ SaveOutcome(FinalState)
    /\ UNCHANGED <<shutdown_sent, shutdown_cancels, store_pc, saving, saves, loaded,
                   clockVars, riskVars, omVars, exchVars, feedVars, engVars,
                   aloneVars>>

\* main: repo.save_state(final_state), which succeeds or fails
MainSaveState ==
    /\ main_pc = "cancelled"
    /\ main_pc' = "saved"
    /\ SaveOutcome(FinalState)
    /\ UNCHANGED <<shutdown_sent, shutdown_cancels, store_pc, saving, saves, loaded,
                   clockVars, riskVars, omVars, exchVars, feedVars, engVars,
                   aloneVars>>

\* main: the engine task has finished or the 30 s wait for it timed out; main
\* returns and the runtime drops the tasks still running
MainExit ==
    /\ main_pc = "saved"
    /\ main_pc' = "exited"
    /\ UNCHANGED <<shutdown_sent, shutdown_cancels, clockVars, riskVars, omVars,
                   exchVars, feedVars, engVars, storeVars, aloneVars>>

\* ArbitrageEngine::new and main before the signal
EngineInit ==
    /\ smoothed_prob = NoPrice
    /\ pc = "recv"
    /\ rx = [t \in Tokens |-> << >>]
    /\ consumed = << >>
    /\ cur = NoUpdate
    /\ balances = << >>
    /\ place_calls = << >>
    /\ shutdown_sent = FALSE
    /\ main_pc = "running"
    /\ shutdown_cancels = 0

----------------------------------------------------------------------------
\* Initial state

RiskInit ==
    /\ daily_loss = 0
    /\ consecutive_losses = 0
    /\ circuit_breaker_active = FALSE
    /\ circuit_breaker_time = NoTime
    /\ total_exposure = 0
    /\ trades = << >>
    /\ last_trip = NoTime
    /\ prev_trip = NoTime

ProgramInit ==
    /\ now = 0
    /\ ticks = 0
    /\ RiskInit
    /\ OrderInit
    /\ FeedInit
    /\ StoreInit
    /\ EngineInit

Init ==
    /\ ProgramInit
    /\ SizerIdle
    /\ NonceInit
    /\ HttpInit
    /\ WatcherInit
    /\ TaskInit
    /\ SettleInit
    /\ rx_closed = [ t \in Tokens |-> FALSE ]
    /\ cancel_log = << >>

\* optimal_size called once, on any of the arguments
SizerInit ==
    /\ ProgramInit
    /\ sizer_in \in SizerInputs
    /\ sizer_out = << >>
    /\ NonceInit
    /\ HttpInit
    /\ WatcherInit
    /\ TaskInit
    /\ SettleInit
    /\ rx_closed = [ t \in Tokens |-> FALSE ]
    /\ cancel_log = << >>

SizerNext == OptimalSizeCall

SpecSizer == SizerInit /\ [][SizerNext]_vars

NonceNext == FromEnv \/ GenerateNonce

SpecNonce == Init /\ [][NonceNext]_vars

HttpNext == HttpCall \/ HttpSend

SettleNext == SweepStart \/ BatchRedeemChunk \/ SweepReport

SpecSettle == Init /\ [][SettleNext]_vars

SpecHttp == Init /\ [][HttpNext]_vars

\* a request that is being executed is eventually sent and answered, or fails
SpecHttpLive == Init /\ [][HttpNext]_vars /\ WF_vars(HttpSend)

RiskNext == RecordTrade \/ UpdateExposure \/ ResetDaily \/ RiskTick

SpecRisk == Init /\ [][RiskNext]_vars

OrderNext ==
    \/ OmPlace \/ OmExchangeRespond \/ OmReturn \/ OmCancelAll
    \/ OmFill \/ OmExpire \/ OmTick

SpecOrder == Init /\ [][OrderNext]_vars

\* the order manager with a caller that notes its cancel_all calls
CancelNext ==
    \/ OmPlace \/ OmExchangeRespond \/ OmReturn \/ OmCancelAllNoted \/ OmFill

SpecCancel == Init /\ [][CancelNext]_vars

FeedNext == HandleMessage

SpecFeed == Init /\ [][FeedNext]_vars

StoreNext ==
    \/ (StoreSave /\ UNCHANGED exceptStore)
    \/ (StoreWrite /\ UNCHANGED exceptStore)
    \/ (StoreRename /\ UNCHANGED exceptStore)
    \/ (StoreFail /\ UNCHANGED exceptStore)
    \/ (StoreLoad /\ UNCHANGED exceptStore)

SpecStore == Init /\ [][StoreNext]_vars

Next ==
    \/ FeedSend \/ EngineRecv \/ EngineBalance \/ EngineExchangeRespond
    \/ EnginePlaceReturn
    \/ MainSignal \/ MainCancelAll \/ MainSaveState \/ MainExit

Spec == Init /\ [][Next]_vars

\* pnl of the trade results reported to the engine's risk manager, in cents
EnginePnls == {-1000}
\* clock advances seen by the running engine, in ms
EngineTickSteps == {1, cooldown_seconds * 1000 - 1}

\* a trade result is recorded on the engine's risk manager between two updates
\* (the manager is a private field of the engine: nothing reaches it while
\* process_update is running)
EngineRecordTrade ==
    /\ main_pc # "exited"
    /\ pc = "recv"
    /\ Len(trades) < MaxTrades
    /\ \E pnl \in EnginePnls :
        /\ RecordTradeUpdate(pnl)
        /\ trades' = Append(trades, pnl)
        /\ last_trip' = IF TrailingLosses(Append(trades, pnl)) >= circuit_breaker_losses
                        THEN now ELSE last_trip
    /\ UNCHANGED <<total_exposure, clockVars, exceptRisk>>

\* time passes while the engine waits for an update or for the balance query
EngineTick ==
    /\ pc \in {"recv", "balance"}
    /\ Tick(EngineTickSteps)
    /\ UNCHANGED <<riskVars, exceptRisk>>

\* the feed sends, on the first market's channel, an update whose edge passes
\* the threshold
FeedSendEdge ==
    /\ main_pc # "exited"
    /\ SentUpdates < MaxUpdates
    /\ rx' = [rx EXCEPT ![Subscriptions[1]] = Append(@,
              [ token |-> Subscriptions[1], best_bid |-> 10220, best_ask |-> 9700,
                mid_price |-> 9960 ])]
    /\ UNCHANGED <<smoothed_prob, pc, cur, consumed, balances, place_calls,
                   clockVars, riskVars, omVars, exchVars, feedVars, mainVars,
                   storeVars, aloneVars>>

\* the engine's loop with its risk manager being fed trade results, before any
\* shutdown
EngineRiskNext ==
    \/ FeedSendEdge \/ EngineRecv \/ EngineBalance \/ EngineExchangeRespond
    \/ EnginePlaceReturn \/ EngineRecordTrade \/ EngineTick

SpecEngineRisk == Init /\ [][EngineRiskNext]_vars

\* main: the engine task has finished within the 30 s main waits for it
MainExitAfterEngine == pc = "stopped" /\ MainExit

\* the engine and the shutdown sequence when the engine task is scheduled
\* fairly and every execution call returns
LiveNext ==
    \/ FeedSendEdge \/ EngineRecv \/ EngineBalance \/ EngineExchangeRespond
    \/ EnginePlaceReturn
    \/ MainSignal \/ MainCancelAll \/ MainSaveState \/ MainExitAfterEngine

SpecLive ==
    /\ Init /\ [][LiveNext]_vars
    /\ WF_vars(EngineRecv)
    /\ WF_vars(EngineBalance)
    /\ WF_vars(EngineExchangeRespond)
    /\ WF_vars(EnginePlaceReturn)

\* the engine's loop while the config watcher runs, up to the shutdown signal
ReloadNext ==
    \/ EditConfig \/ WatcherRun \/ CheckAndReload \/ WatcherShutdown
    \/ FeedSendEdge \/ EngineRecv \/ EngineBalance \/ EngineExchangeRespond
    \/ EnginePlaceReturn \/ MainSignal

SpecReload == Init /\ [][ReloadNext]_vars

\* the engine's loop on channels that overrun and close
RecvNext ==
    \/ FeedSend \/ FeedLag \/ FeedClose
    \/ EngineRecv \/ EngineBalance \/ EngineExchangeRespond \/ EnginePlaceReturn
    \/ MainSignal

SpecRecv == Init /\ [][RecvNext]_vars

\* the config watcher alone, with the edits of the file and the shutdown signal
WatcherNext ==
    EditConfig \/ WatcherRun \/ CheckAndReload \/ WatcherShutdown \/ MainSignal

SpecWatcher == Init /\ [][WatcherNext]_vars

\* the feed tasks and the shutdown signal
TasksNext ==
    \/ \E f \in Feeds :
          \/ NetFail(f) \/ NetRestore(f) \/ TaskStart(f) \/ Connect(f)
          \/ StreamMessage(f) \/ StreamError(f) \/ StreamShutdown(f)
          \/ BackoffElapsed(f) \/ BackoffShutdown(f)
    \/ MainSignal

\* every task is scheduled fairly, its timers fire, and a select with the
\* shutdown branch ready ends up taking it
SpecTasks ==
    /\ Init /\ [][TasksNext]_vars
    /\ \A f \in Feeds :
          /\ WF_vars(TaskStart(f))
          /\ WF_vars(Connect(f))
          /\ WF_vars(BackoffElapsed(f))
          /\ WF_vars(StreamError(f))
          /\ SF_vars(StreamShutdown(f))
          /\ SF_vars(BackoffShutdown(f))

----------------------------------------------------------------------------
\* Claims about the risk manager (checked under SpecRisk)

\* the history has a prefix that ends in circuit_breaker_losses consecutive losses
EverReachedThreshold(s) ==
    \E k \in 1..Len(s) : TrailingLosses(SubSeq(s, 1, k)) >= circuit_breaker_losses

\* C4: on a fresh risk manager the breaker is active exactly when some call of
\* record_trade so far ended a run of circuit_breaker_losses consecutive losing
\* trades (so it trips on the call that first reaches the threshold and never
\* earlier), and the consecutive-loss counter is the number of losing trades
\* since the last trade with pnl >= 0.
C4_BreakerTripsAtThreshold ==
    /\ consecutive_losses = TrailingLosses(trades)
    /\ IsCircuitBreakerActive <=> EverReachedThreshold(trades)

\* the breaker tripped after a winning trade had reset an earlier losing run
C4_Witness ==
    /\ IsCircuitBreakerActive
    /\ Len(trades) = MaxTrades
    /\ trades[1] < 0
    /\ trades[2] >= 0
    /\ consecutive_losses = circuit_breaker_losses

\* C5: can_trade() is false exactly from the trip until cooldown_seconds have
\* passed since the latest trip, and true on a manager that has not tripped.
C5_CanTradeIffArmedOrCooledDown ==
    CanTrade <=> (last_trip = NoTime \/ now >= last_trip + cooldown_seconds * 1000)

\* the clock stands exactly at trip time + cooldown and trading is allowed again
C5_Witness ==
    /\ last_trip # NoTime
    /\ now = last_trip + cooldown_seconds * 1000
    /\ CanTrade

\* the clock stands one millisecond before the end of the cooldown
C5_WitnessBlocked ==
    /\ last_trip # NoTime
    /\ now = last_trip + cooldown_seconds * 1000 - 1
    /\ ~CanTrade

\* C6: once the cooldown has elapsed since the trip the risk manager is Armed
\* again: the breaker is no longer reported active.
C6_ArmedAgainAfterCooldown ==
    (last_trip # NoTime /\ now >= last_trip + cooldown_seconds * 1000)
        => ~IsCircuitBreakerActive

\* (size, bankroll) arguments of can_open_position, in cents, on and around
\* each limit
OpenSizes == {0, 5000, max_position_size, max_position_size + 1}
OpenBankrolls == {min_bankroll - 1, min_bankroll, 50000, 100000}

\* the breaker tripped and the cooldown has not elapsed since
InCooldown == last_trip # NoTime /\ now < last_trip + cooldown_seconds * 1000

C13_DailyLossGateCountsPosition ==
    \A size \in OpenSizes : \A bankroll \in OpenBankrolls :
        ( /\ ~InCooldown
          /\ bankroll >= min_bankroll
          /\ size <= max_position_size
          /\ total_exposure + size <= max_total_exposure )
        => ( CanOpenPosition(size, bankroll)
               <=> (daily_loss + size) * 100 <= bankroll * max_daily_loss_pct )

----------------------------------------------------------------------------
\* Claims about the order manager (checked under SpecOrder)

\* placements of log l whose time f falls in the 60 s window starting at time w
InWindow(l, w, f(_)) ==
    { i \in 1..Len(l) : w <= f(l[i]) /\ f(l[i]) < w + RateWindowSecs * 1000 }

AcceptedAt(e) == e.accepted_at
RecordedAt(e) == e.recorded_at

\* C3: no 60-second window holds more than max_orders_per_minute accepted
\* placements, whether a placement is timed by the exchange's acceptance or by
\* the moment place_maker_order recorded it.
C3_RateLimitPerWindow ==
    \A i \in 1..Len(placed_log) :
        /\ Cardinality(InWindow(placed_log, placed_log[i].accepted_at, AcceptedAt))
              <= max_orders_per_minute
        /\ Cardinality(InWindow(placed_log, placed_log[i].recorded_at, RecordedAt))
              <= max_orders_per_minute

\* with no minimum interval, two orders were placed at one instant and the
\* third signal at that instant was skipped for the rate budget
C3_Witness ==
    /\ min_interval_ms = 0
    /\ Len(placed_log) = max_orders_per_minute
    /\ \A i \in 1..Len(placed_log) : placed_log[i].recorded_at = now
    /\ om_outcome = "skipped_rate"

\* C8: every order in the tracked open-orders map is open on the exchange.
C8_TrackedSubsetOfExchangeOpen ==
    DOMAIN open_orders \subseteq DOMAIN exch_open

\* a step of a place_maker_order call: its entry, the exchange's answer or its
\* return
PlaceMakerOrderStep ==
    \/ om_outcome' # om_outcome
    \/ om_call' # om_call
    \/ order_timestamps' # order_timestamps

\* C14: a step of place_maker_order that does not record an accepted placement
\* leaves the tracked map, last_order_time and the timestamps inside the rate
\* window as they were (timestamps older than the window may be dropped), and
\* a call that is skipped makes no place_order call.
C14_OnlyAcceptanceChangesState ==
    [][ PlaceMakerOrderStep =>
          /\ placed_log' = placed_log =>
                /\ open_orders' = open_orders
                /\ last_order_time' = last_order_time
                /\ Retained(order_timestamps') = Retained(order_timestamps)
          /\ om_outcome' \in {"skipped_rate", "skipped_interval"} =>
                (om_call' = NoCall /\ UNCHANGED exchVars)
      ]_vars

\* the exchange rejected an order after an earlier one was accepted, and the
\* manager's state still holds the accepted one only
C14_Witness ==
    /\ om_outcome = "rejected"
    /\ Len(placed_log) = 1
    /\ Len(order_timestamps) = 1
    /\ last_order_time = placed_log[1].recorded_at
    /\ DOMAIN open_orders = {1}

\* the rate budget was exhausted and the call was skipped
C14_WitnessSkipped ==
    /\ om_outcome = "skipped_rate"
    /\ om_call = NoCall
    /\ Len(placed_log) = max_orders_per_minute

\* C30: while less than min_interval_ms has passed since the time recorded for
\* the latest accepted order, place_maker_order makes no place_order call and
\* returns a skip; so every accepted order is accepted at least
\* min_interval_ms after the time recorded for the accepted order before it.
C30_MinIntervalBetweenPlacements ==
    [][ /\ (om_call = NoCall /\ IntervalNotMet) =>
              /\ om_call' = NoCall
              /\ PlaceMakerOrderStep =>
                    /\ om_outcome' \in {"skipped_interval", "skipped_rate"}
                    /\ UNCHANGED exchVars
        /\ \A i \in 1..(Len(placed_log') - 1) :
              placed_log'[i + 1].accepted_at - placed_log'[i].recorded_at
                  >= min_interval_ms
      ]_vars

\* with a minimum interval, a second order was accepted a rate window after the
\* first, and the signal at the instant it was recorded was skipped for the
\* interval
C30_Witness ==
    /\ min_interval_ms > 0
    /\ Len(placed_log) = 2
    /\ om_outcome = "skipped_interval"
    /\ now = last_order_time

\* C15: after a cancel_all that succeeded, and until an order is placed, the
\* tracked map is empty and every further cancel_all returns zero (or fails).
C15_CancelAllIdempotent ==
    /\ last_cancel.after_success => last_cancel.ret \in {0, CancelFailed}
    /\ (last_cancel.ret # CancelFailed \/ last_cancel.after_success)
          => open_orders = << >>

\* a cancel_all that cancelled an order was followed by one that returned zero
C15_Witness ==
    /\ Len(placed_log) > 0
    /\ last_cancel = [ ret |-> 0, after_success |-> TRUE ]
    /\ open_orders = << >>

----------------------------------------------------------------------------
\* Claims about the feed fan-in (checked under SpecFeed)

\* index of the latest update before position i of log l that carried a mid
\* (0 when there is none)
PrevWithMid(l, i) ==
    LET js == { j \in 1..(i - 1) : l[j].mid_price # NoPrice }
    IN  IF js = {} THEN 0 ELSE CHOOSE j \in js : \A k \in js : k <= j

\* C9: every broadcast update that carries a mid, and follows an earlier
\* broadcast update of its token that carried one, differs from the mid of the
\* most recent such update by at least the debounce threshold (relative 0.005).
C9_DebounceAgainstLastEmittedMid ==
    \A t \in Tokens : \A i \in 1..Len(emitted[t]) :
        LET p == PrevWithMid(emitted[t], i)
        IN  (emitted[t][i].mid_price # NoPrice /\ p # 0)
                => ~DeltaBelowThreshold(emitted[t][i].mid_price, emitted[t][p].mid_price)

\* PolymarketFeed::last_price: the update rebuilt from the stored snapshot
LastPrice(token_id) ==
    LET snapshot == last_snapshot[token_id]
    IN  IF snapshot = NoSnapshot
        THEN NoBook
        ELSE [ best_bid |-> snapshot.best_bid, best_ask |-> snapshot.best_ask,
               mid_price |-> MidPrice(snapshot.best_bid, snapshot.best_ask),
               timestamp_ms |-> snapshot.timestamp_ms ]

\* C22: last_price(token) is the book of the most recent message parsed for
\* that token, whether or not the debounce suppressed its broadcast.
C22_LastPriceIsLatestParsed ==
    \A t \in Tokens : last_parsed[t] # NoBook => LastPrice(t) = last_parsed[t]

\* C10: the sequence of the snapshot stored for a token never decreases.
C10_SnapshotSequenceMonotone ==
    [][ \A t \in Tokens : last_snapshot'[t].sequence >= last_snapshot[t].sequence ]_vars

----------------------------------------------------------------------------
\* Claims about the engine and the shutdown sequence (checked under Spec)

\* C1: no place_order call is made once the shutdown signal has been broadcast
\* (and so none after cancel_all_orders has been invoked).
C1_NoPlaceOrderAfterShutdown ==
    \A i \in 1..Len(place_calls) :
        /\ ~place_calls[i].after_shutdown
        /\ ~place_calls[i].after_cancel_all

\* the risk manager's can_open_position for a placed order, on the state the
\* engine's risk manager has when the order is placed
PassedCanOpen(call) == CanOpenPosition(call.order.size, call.bankroll)

\* C2: every order the engine hands to the order manager passed
\* can_open_position for its Kelly size and the bankroll just fetched.
C2_EveryOrderPassedCanOpen ==
    \A i \in 1..Len(place_calls) : PassedCanOpen(place_calls[i])

\* the clear-edge scenario has run to completion: a fresh engine received the
\* single update mid=0.50, best_ask=0.40 and was told a bankroll of 1000
ClearEdgeScenarioDone ==
    /\ consumed = << [ token |-> "T1", best_bid |-> 6000, best_ask |-> 4000,
                       mid_price |-> 5000,
                       can_trade |-> TRUE ] >>
    /\ balances = << 100000 >>
    /\ pc = "recv"

\* C7: in the clear-edge scenario the engine emits exactly one Buy order at
\* price 0.50.
C7_ClearEdgeEmitsOneBuy ==
    ClearEdgeScenarioDone =>
        /\ Len(place_calls) = 1
        /\ place_calls[1].order.side = "Buy"
        /\ place_calls[1].order.price = 5000

----------------------------------------------------------------------------
\* Claims about the engine and its risk manager (checked under SpecEngineRisk)

\* C11: while the breaker is tripped and its cooldown has not elapsed, no step
\* of the engine starts a balance query or makes a place_order call, and every
\* update processed in that time found can_trade() false.
C11_NoExecutionCallWhileBlocked ==
    [][ InCooldown =>
          /\ ~(pc = "recv" /\ pc' = "balance")
          /\ place_calls' = place_calls
          /\ balances' = balances
          /\ Len(consumed') > Len(consumed) => ~consumed'[Len(consumed')].can_trade
      ]_vars

\* an update with an edge was processed one millisecond before the end of the
\* cooldown and led to no execution call
C11_Witness ==
    /\ InCooldown
    /\ now = last_trip + cooldown_seconds * 1000 - 1
    /\ Len(consumed) = 1
    /\ ~consumed[1].can_trade
    /\ pc = "recv"
    /\ balances = << >>
    /\ place_calls = << >>

----------------------------------------------------------------------------
\* Claims about updates that yield no trade (checked under Spec)

\* the update the engine received in this step, if it received one
JustReceived == consumed'[Len(consumed')]
ValidMid(mid) == mid # NoPrice /\ mid > 0 /\ mid < Scale

\* C20: a step that processes an update whose mid is absent or outside (0,1)
\* changes no state of the engine, its managers or the exchange; one that
\* processes an update whose fair value (the new estimate, clamped to
\* [0.01, 0.99]) is within min_edge of its best ask, or that has no best ask,
\* changes nothing but the Bayesian estimate.  In both cases no balance query
\* and no place_order call is made.
C20_NoTradeUpdateChangesNoState ==
    [][ Len(consumed') > Len(consumed) =>
          LET u == JustReceived
              fair == Min(Max(smoothed_prob', 100), 9900)
              quiet == UNCHANGED <<pc, cur, balances, place_calls, riskVars, omVars,
                                   exchVars>>
          IN  /\ ~ValidMid(u.mid_price) => (quiet /\ UNCHANGED smoothed_prob)
              /\ ( /\ ValidMid(u.mid_price)
                    /\ \/ u.best_ask = NoPrice
                       \/ Abs(fair - u.best_ask) < min_edge )
                  => quiet
      ]_vars

\* after one update was processed, updates with mid = best_ask = 0.50 and with
\* mid = 1.0 were processed and left the engine idle with no execution call
C20_Witness ==
    /\ Len(consumed) = MaxUpdates
    /\ consumed[1].mid_price = 5000 /\ consumed[1].best_ask = 5000
    /\ consumed[MaxUpdates].mid_price = Scale
    /\ smoothed_prob = 5000
    /\ pc = "recv"
    /\ balances = << >>
    /\ place_calls = << >>

----------------------------------------------------------------------------
\* Claims about the shutdown sequence and the snapshot (checked under Spec)

\* a write of the final snapshot has been attempted
SnapshotWritten == state_file # NoFile \/ tmp_file # NoFile

\* C16: cancel_all_orders is called at most once during shutdown, and once a
\* snapshot write has been attempted it has been called exactly once and has
\* returned.
C16_CancelOnceBeforeSnapshot ==
    /\ shutdown_cancels <= 1
    /\ (SnapshotWritten \/ main_pc \in {"saved", "exited"}) => shutdown_cancels = 1

\* the snapshot was written after the one cancel_all_orders call, while an
\* order is open on the exchange
C16_Witness ==
    /\ state_file = FileOf(FinalState, MaxChunks)
    /\ shutdown_cancels = 1
    /\ exch_open # << >>

\* C18: the snapshot written at shutdown records the engine's daily loss and
\* its tracked open orders as of shutdown.
C18_SnapshotRecordsEngineState ==
    (main_pc = "saved" /\ state_file # NoFile) =>
        /\ state_file.snap.daily_loss = daily_loss
        /\ state_file.snap.open_orders = Cardinality(DOMAIN open_orders)

----------------------------------------------------------------------------
\* Claims about the state store (checked under SpecStore)

\* C19: state.json is absent or holds one complete snapshot; every step leaves
\* it as it was or replaces it by the complete snapshot being saved; load
\* returns nothing or a complete snapshot, never an error or a part of one.
C19_StateFileAlwaysComplete ==
    [][ /\ state_file' = NoFile \/ Complete(state_file')
        /\ state_file' \in {state_file, FileOf(saving, MaxChunks)}
        /\ \/ loaded'.result \in {"not called", "none"}
           \/ loaded'.result = "some" /\ loaded'.snap \in StoreSnapshots
      ]_vars

\* a save was interrupted after its temp file was written in full and before
\* the rename; state.json still holds the previous snapshot, which load returns
C19_Witness ==
    /\ store_pc = "idle"
    /\ Complete(tmp_file)
    /\ Complete(state_file)
    /\ tmp_file.snap # state_file.snap
    /\ loaded = LoadResult("some", state_file.snap)


----------------------------------------------------------------------------
\* Claims about termination (checked under SpecLive)

----------------------------------------------------------------------------
\* Claims over the engine's error handling

\* C21: a failure while processing one update never ends the engine's loop: when
\* available_balance fails, or place_order answers with an error, the engine
\* is back at recv_first_event, and the loop ends only once the shutdown signal
\* has been sent.
C21_FailureNeverAbortsEngine ==
    [][ /\ (pc # "stopped" /\ pc' = "stopped") => shutdown_sent
        /\ (pc = "balance" /\ pc' # "balance" /\ balances' = balances)
              => pc' = "recv"
        /\ (pc = "place" /\ om_call # NoCall /\ om_call' = NoCall
              /\ om_call[1].resp = "error") => pc' = "recv" ]_vars

\* after a place_order error the engine has taken the next update through
\* steps 1 to 6 and is asking for its balance, with no shutdown sent
C21_Witness ==
    /\ om_outcome = "error"
    /\ pc = "balance"
    /\ Len(consumed) = 2
    /\ ~shutdown_sent

----------------------------------------------------------------------------
\* Claims about the Kelly sizer (checked under SpecSizer)

\* C23: optimal_size returns 0 whenever the estimated probability is at most
\* the market price, whenever the market price is outside (0,1), and whenever
\* the bankroll is zero or negative.
C23_SizeZeroWithoutEdgeOrBankroll ==
    sizer_out # << >> =>
        ( ( \/ sizer_in.estimated_prob <= sizer_in.market_price
            \/ sizer_in.market_price <= 0
            \/ sizer_in.market_price >= Scale
            \/ sizer_in.bankroll <= 0 )
          => sizer_out[1] = 0 )

\* C24: for a probability and a market price in (0,1) and a positive bankroll
\* the size, rounded to cents, lies in [0, bankroll * max_position_fraction].
C24_SizeWithinMaxFraction ==
    ( /\ sizer_out # << >>
      /\ sizer_in.estimated_prob > 0 /\ sizer_in.estimated_prob < Scale
      /\ sizer_in.market_price > 0 /\ sizer_in.market_price < Scale
      /\ sizer_in.bankroll > 0 )
    => ( /\ sizer_out[1] >= 0
         /\ sizer_out[1] * Scale <= sizer_in.bankroll * max_position_fraction )

----------------------------------------------------------------------------
\* Claims about nonces (checked under SpecNonce)

\* C25: no two generate_nonce calls of the process return the same value,
\* whichever ClobAuth instances they are made on.
C25_NoncesUniqueProcessWide ==
    \A i, j \in 1..Len(nonces) : i # j => nonces[i].nonce # nonces[j].nonce

----------------------------------------------------------------------------
\* Claims about the CLOB HTTP client (checked under SpecHttp)

\* C26 as stated: a POST or DELETE request is never sent again after a response
\* with a 4xx status.
C26_NoResendAfterClientError ==
    http_method \in {"POST", "DELETE"} =>
        \A i \in 1..Len(sent) : IsClientError(sent[i]) => i = Len(sent)

\* C26: a POST or DELETE request is never sent again after a response with a
\* 4xx status other than 429; it is sent again only after a transport failure,
\* a 5xx response or a 429 response.
C26_ResendOnlyAfterFailure5xxOr429 ==
    http_method \in {"POST", "DELETE"} =>
        \A i \in 1..Len(sent) :
            /\ (IsClientError(sent[i]) /\ sent[i] # 429) => i = Len(sent)
            /\ i < Len(sent) =>
                    (sent[i] = TransportError \/ IsServerError(sent[i]) \/ sent[i] = 429)

\* a POST was sent again after a 503 and then answered with a 400, on which the
\* call returned the error
C26_Witness ==
    /\ http_method = "POST"
    /\ sent = <<503, 400>>
    /\ http_pc = "returned"
    /\ http_result = "api_error"

----------------------------------------------------------------------------
\* Claims about configuration hot reload (checked under SpecReload)

\* C27: a pipeline step applies the min_edge of the configuration the watcher
\* published last: it goes on past the edge threshold (step 5) only with an
\* edge of at least that min_edge.
C27_PipelineUsesPublishedConfig ==
    [][ (pc = "recv" /\ pc' = "balance") => Abs(cur'.edge) >= watch_config ]_vars

----------------------------------------------------------------------------
\* Claims about the feed tasks (checked under SpecTasks)

\* C28: once the shutdown signal is sent, every feed task eventually returns,
\* whatever it is doing: streaming, waiting out a reconnect backoff, or failing
\* to connect again and again.
C28_FeedTasksReturnAfterShutdown ==
    shutdown_sent ~> (\A f \in Feeds : feed_pc[f] = "returned")

\* C29: a supervised feed whose endpoint stays unreachable does not keep its
\* health flag: again and again the endpoint is reachable or the flag is false,
\* and so it is for is_fully_healthy, and for is_healthy when no supervised
\* feed's endpoint is reachable.
C29_PersistentFailureMarksUnhealthy ==
    /\ \A f \in Supervised : []<>(~net_down[f] \/ (~connected[f] /\ ~IsFullyHealthy))
    /\ []<>((\E f \in Supervised : ~net_down[f]) \/ ~IsHealthy)

----------------------------------------------------------------------------
\* Claims about the side of the engine's orders (checked under Spec)

\* the PriceUpdate process_update is working on: the engine handles one update
\* at a time, so it is the last one received
Processing == consumed[Len(consumed)]

\* the engine hands a new order of the given side to the execution interface
Emits(side) ==
    /\ Len(place_calls') > Len(place_calls)
    /\ place_calls'[Len(place_calls')].order.side = side

\* C31: the engine emits a Sell order only when the update's best_bid is
\* present and net_edge(fair, best_bid, is_buy=false) = best_bid - fair
\* reaches min_edge.
C31_SellDecidedFromBestBid ==
    [][ Emits("Sell") =>
          /\ Processing.best_bid # NoPrice
          /\ NetEdge(place_calls'[Len(place_calls')].order.price,
                     Processing.best_bid, FALSE) >= min_edge
      ]_vars

----------------------------------------------------------------------------
\* Claims about the type of the orders sent (checked under SpecOrder)

\* C32: every order submitted is a GTC maker order with post_only = true, both
\* in the Order record place_maker_order constructs and in the request the
\* executor sends to the CLOB.
C32_EveryOrderGtcPostOnly ==
    om_call # NoCall =>
        /\ om_call[1].order.order_type = "Gtc"
        /\ om_call[1].order.post_only
        /\ \A i \in 1..Len(om_call[1].request) :
              /\ om_call[1].request[i].order_type = "GTC"
              /\ om_call[1].request[i].post_only

----------------------------------------------------------------------------
\* Claims about the daily-loss gate and the breaker (checked under SpecRisk)

\* bankrolls of the backtest's scenario, in cents: the daily limit of the
\* larger one is above the loss that trips the breaker
BacktestBankrolls == {100000, 200000}

\* C33: can_open_position allows a position whenever the daily loss is below
\* bankroll * max_daily_loss_fraction and the size, exposure and bankroll
\* limits hold, whether or not the circuit breaker has just triggered.
C33_DailyLossGateIndependentOfBreaker ==
    \A size \in OpenSizes : \A bankroll \in BacktestBankrolls :
        ( /\ bankroll >= min_bankroll
          /\ size <= max_position_size
          /\ total_exposure + size <= max_total_exposure
          /\ daily_loss * 100 < bankroll * max_daily_loss_pct )
        => CanOpenPosition(size, bankroll)

----------------------------------------------------------------------------
\* Claims about the retry loop's termination (checked under SpecHttpLive)

IsSuccess(outcome) == outcome \in {200, 201}

\* what the loop guarantees at every moment of a call
RetryLoopBounded ==
    /\ Len(sent) <= max_retries + 1
    /\ Len(sent) <= 5
    /\ Len(delays) < Len(sent) \/ sent = << >>
    /\ \A i \in 1..Len(delays) : delays[i] = retry_base_delay * Pow2(i - 1)
    /\ \A i \in 1..Len(sent) :
          IsSuccess(sent[i]) =>
              i = Len(sent) /\ http_pc = "returned" /\ http_result = "ok"
    /\ (http_pc = "returned" /\ ~IsSuccess(sent[Len(sent)])) =>
          \/ http_result = "api_error" /\ ~Continues(sent[Len(sent)])
          \/ http_result = "last_error" /\ last_error = sent[Len(sent)]

\* C34: the retry loop always terminates: a request is sent at most 5 times
\* (max_retries + 1 sends, the backoff before each resend doubling from the
\* base delay), the first 200/201 response ends the loop with success, and
\* when every attempt fails the error of the last one is returned.
C34_RetryLoopTerminates ==
    /\ []RetryLoopBounded
    /\ (http_pc = "sending") ~> (http_pc = "returned")

\* every send allowed was made and failed, and the last error was returned
C34_Witness ==
    /\ http_pc = "returned"
    /\ Len(sent) = max_retries + 1
    /\ http_result = "last_error"
    /\ last_error = 503
    /\ sent[1] = TransportError
    /\ Len(delays) = max_retries

----------------------------------------------------------------------------
\* Claims about failed reloads (checked under SpecWatcher)

\* the file's content differs from the one whose hash is recorded
ChangedOnDisk == ComputeHash(config_file) # last_hash

\* C35: the watcher publishes only configurations that changed on disk and
\* passed parse and validation; when the reload of a changed file fails,
\* nothing is published, the published config stays, and the recorded hash is
\* not advanced, so that the file still counts as changed on the next tick.
C35_FailedReloadPublishesNothing ==
    [][ LET ticked == Len(reload_log') > Len(reload_log)
            outcome == reload_log'[Len(reload_log')]
        IN  /\ ~ticked => watch_config' = watch_config
            /\ ticked =>
                 /\ outcome = "published" <=> (ChangedOnDisk /\ LoadConfigOk(config_file))
                 /\ outcome = "failed" <=> (ChangedOnDisk /\ ~LoadConfigOk(config_file))
                 /\ outcome = "published" => watch_config' = config_file
                 /\ outcome # "published" => watch_config' = watch_config
                 /\ outcome = "failed" => /\ last_hash' = last_hash
                                          /\ ChangedOnDisk'
      ]_vars

\* a valid edit was published, then an invalid one was rejected on two ticks
\* in a row, the published config staying the valid one
C35_Witness ==
    /\ reload_log = << "published", "failed", "failed" >>
    /\ config_file = Scale
    /\ watch_config = 5000
    /\ last_hash = ComputeHash(5000)

----------------------------------------------------------------------------
\* Claims about the settlement sweep (checked under SpecSettle)

RECURSIVE ChainRecovered(_)
\* the USDC the successful batch_redeem calls of the sweep returned
ChainRecovered(log) ==
    IF log = << >> THEN 0
    ELSE (IF Head(log).ok THEN Head(log).usdc_recovered ELSE 0)
         + ChainRecovered(Tail(log))

\* C36: the report's total_usdc_recovered equals the sum of usdc_recovered
\* returned by the successful batch_redeem chain calls of the sweep.
C36_TotalEqualsChainRecovered ==
    settle_pc = "reported" =>
        report.total_usdc_recovered = ChainRecovered(chain_log)

----------------------------------------------------------------------------
\* Claims about sizing against the fair value (checked under Spec)

\* the smoothed probability of the update in process lies in [0.01, 0.99]
ProbInPricerRange == cur.estimated_prob >= 100 /\ cur.estimated_prob <= 9900

\* C37: for every update whose smoothed probability lies in [0.01, 0.99] the
\* engine places no order, whatever the best ask and the bankroll: the fair
\* value equals the probability and the Kelly size against it is 0.
C37_NoOrderInsidePricerRange ==
    [][ (pc = "balance" /\ ProbInPricerRange) =>
          /\ cur.fair_value = cur.estimated_prob
          /\ \A b \in Bankrolls :
                OptimalSize(cur.estimated_prob, cur.fair_value, b) = 0
          /\ pc' # "place"
          /\ place_calls' = place_calls
          /\ om_call' = om_call
      ]_vars

\* an update with mid 0.50 and best ask 0.40 passed the edge threshold, the
\* largest bankroll was fetched, and the update was dropped with no order
C37_Witness ==
    /\ Len(consumed) = 1
    /\ consumed[1].mid_price = 5000
    /\ consumed[1].best_ask = 4000
    /\ smoothed_prob = 5000
    /\ balances = << 200000 >>
    /\ pc = "recv"
    /\ place_calls = << >>
    /\ om_call = NoCall

----------------------------------------------------------------------------
\* Claims about losses after the cooldown (checked under SpecRisk)

\* the breaker tripped, its cooldown has elapsed, and neither a winning trade
\* nor reset_daily has come since the trip
CooledDownStillLosing ==
    /\ circuit_breaker_active
    /\ circuit_breaker_time # NoTime
    /\ now >= circuit_breaker_time + cooldown_seconds * 1000
    /\ TrailingLosses(trades) >= circuit_breaker_losses

\* record_trade is called with a loss
LosingTrade == Len(trades') > Len(trades) /\ trades'[Len(trades')] < 0

\* C38: the expiry of the cooldown does not reset the consecutive-loss
\* counter: with no winning trade and no reset_daily since the trip, trading
\* is allowed again, and the very next losing trade trips the breaker anew
\* with a new trip time, so that can_trade() is false after a single loss.
C38_SingleLossRetripsAfterCooldown ==
    [][ CooledDownStillLosing =>
          /\ CanTrade
          /\ consecutive_losses >= circuit_breaker_losses
          /\ LosingTrade =>
                /\ prev_trip' = circuit_breaker_time
                /\ circuit_breaker_time' = now
                /\ circuit_breaker_time' > circuit_breaker_time
                /\ ~CanTrade'
      ]_vars

\* three losses tripped the breaker, the cooldown went by, and a fourth loss
\* tripped it again
C38_Witness ==
    /\ Len(trades) = circuit_breaker_losses + 1
    /\ TrailingLosses(trades) = Len(trades)
    /\ prev_trip # NoTime
    /\ circuit_breaker_time >= prev_trip + cooldown_seconds * 1000
    /\ now = circuit_breaker_time
    /\ ~CanTrade

----------------------------------------------------------------------------
\* Claims about the order in which events are served (checked under SpecRecv)

\* the subscriptions from which this step takes an event
ServedNow ==
    { i \in 1..Len(Subscriptions) :
        Len(rx'[Subscriptions[i]]) < Len(rx[Subscriptions[i]]) }

\* recv_first_event returns in this step
EventReturned == pc = "recv" /\ (pc' = "stopped" \/ ServedNow # {})

\* C39: recv_first_event serves by fixed priority: Shutdown whenever a
\* shutdown signal is pending, otherwise the head event (update or lag notice)
\* of the lowest-index subscription that has one; a later subscription is
\* served only when all earlier ones are empty, closed ones included.
C39_EventsServedByPriority ==
    [][ EventReturned =>
          /\ shutdown_sent => (pc' = "stopped" /\ rx' = rx)
          /\ ~shutdown_sent =>
                \E i \in 1..Len(Subscriptions) :
                    /\ ServedNow = {i}
                    /\ rx'[Subscriptions[i]] = Tail(rx[Subscriptions[i]])
                    /\ \A j \in 1..(i - 1) : rx[Subscriptions[j]] = << >>
                    /\ IF IsLagNotice(Head(rx[Subscriptions[i]]))
                       THEN consumed' = consumed /\ pc' = "recv"
                       ELSE /\ Len(consumed') = Len(consumed) + 1
                            /\ consumed'[Len(consumed')].token = Subscriptions[i]
      ]_vars

\* the second subscription was served while the first was empty, then the
\* first one, whose channel is now closed and drained
C39_Witness ==
    /\ Len(consumed) = 2
    /\ consumed[1].token = Subscriptions[2]
    /\ consumed[2].token = Subscriptions[1]
    /\ rx_closed[Subscriptions[1]]
    /\ rx[Subscriptions[1]] = << >>
    /\ pc = "recv"
    /\ ~shutdown_sent

----------------------------------------------------------------------------
\* Claims about a failed mass-cancel (checked under SpecCancel)

\* C40: when the execution interface fails the mass-cancel, cancel_all
\* returns the error and leaves the tracked map as it was; the map is cleared
\* only by a call in which execution reported success.
C40_FailedCancelKeepsTrackedMap ==
    \A i \in 1..Len(cancel_log) :
        /\ cancel_log[i].ret = CancelFailed => cancel_log[i].after = cancel_log[i].before
        /\ cancel_log[i].ret # CancelFailed => cancel_log[i].after = << >>

\* a mass-cancel failed with an order tracked, which stayed in the map; the
\* next one succeeded and cleared it
C40_Witness ==
    /\ Len(cancel_log) = 2
    /\ cancel_log[1].ret = CancelFailed
    /\ cancel_log[1].before # << >>
    /\ cancel_log[1].after = cancel_log[1].before
    /\ cancel_log[2].ret > 0
    /\ cancel_log[2].before = cancel_log[1].after
    /\ open_orders = << >>

====
